---- MODULE Spec2Model ----
(***************************************************************************)
(* Resonance-structure generation of rmgpy/molecule/resonance.py.          *)
(*                                                                         *)
(* A molecule is a record over a fixed connectivity: per atom the element, *)
(* the number of implicit hydrogens, the radical count, the lone pairs and *)
(* the formal charge; per bond the order.  The move appliers, the worklist *)
(* engine _generateResonanceStructures, the top-level entry point and the  *)
(* Clar optimisation are modelled from the source; the graph, path finder, *)
(* atom typing and ILP solver are collaborators outside the source file.   *)
(***************************************************************************)
EXTENDS Integers, Sequences, FiniteSets, TLC

VARIABLES
    pc,             \* position of the running function
    molList,        \* _generateResonanceStructures: the isomer list
    index,          \* _generateResonanceStructures: worklist index (0-based)
    methodList,     \* _generateResonanceStructures: the move families
    keepIsomorphic, \* equivalence mode (FALSE: isIsomorphic, TRUE: isIdentical)
    seedList,       \* the list handed to _generateResonanceStructures
    newMolList,     \* _generateResonanceStructures: the candidates of one pass
    listBound,      \* the seeds and the structures reachable from them, counted
    mol,            \* a move applier: the molecule object it works on
    mol0,           \* a move applier: the molecule as it was handed over
    family,         \* a move applier: which of the appliers runs
    atom,           \* a move applier: the vertex the outer loop is at
    paths,          \* a move applier: the paths of that vertex still to do
    isomer,         \* a move applier: the deep copy made last
    isomers,        \* a move applier: the list it returns
    gen,            \* generateResonanceStructures: its frame, by local name
    clar,           \* _clarOptimization: the frames of the recursion
    frame           \* the frame of one of the other functions, by local name

varsSat == <<molList, index, methodList, keepIsomorphic, seedList, newMolList,
             listBound>>

varsMove == <<mol, mol0, family, atom, paths, isomer, isomers>>

vars == <<pc, varsSat, varsMove, gen, clar, frame>>

---------------------------------------------------------------------------
(* Bounds of the model *)

\* largest radical count of one atom of an input molecule
MaxRadical == 2

\* the engine stops working on a list that has grown to this length
MaxList == 24

\* the largest number of aromatic rings, and of feasible assignments
MaxRings == 3

---------------------------------------------------------------------------
(* The molecular graph (collaborator): three heavy atoms in a chain *)

Atoms == {1, 2, 3}

Bonds == {{1, 2}, {2, 3}}

Elements == {"C", "N", "O"}

ElemPatterns ==
    { <<"C", "C", "C">>, <<"C", "C", "O">>, <<"O", "N", "O">>,
      <<"C", "N", "O">>, <<"N", "C", "C">> }

ValenceElectrons(e) == CASE e = "C" -> 4 [] e = "N" -> 5 [] e = "O" -> 6

RECURSIVE SumOver(_, _)
SumOver(S, f) ==
    IF S = {} THEN 0
    ELSE LET x == CHOOSE y \in S : TRUE IN f[x] + SumOver(S \ {x}, f)

BondsOf(a) == {b \in Bonds : a \in b}

\* sum of the orders of the bonds of atom a, implicit hydrogens included
TotalBondOrder(m, a) ==
    m.H[a] + SumOver(BondsOf(a), [b \in BondsOf(a) |-> m.ord[b]])

\* Atom.updateCharge: the charge follows from the electron count
updateCharge(m, a) ==
    [m EXCEPT !.chg[a] = ValenceElectrons(m.elem[a]) - m.rad[a]
                          - 2 * m.lp[a] - TotalBondOrder(m, a)]

decrementRadical(m, a) == [m EXCEPT !.rad[a] = @ - 1]
incrementRadical(m, a) == [m EXCEPT !.rad[a] = @ + 1]
decrementLonePairs(m, a) == [m EXCEPT !.lp[a] = @ - 1]
incrementLonePairs(m, a) == [m EXCEPT !.lp[a] = @ + 1]
decrementOrder(m, b) == [m EXCEPT !.ord[b] = @ - 1]
incrementOrder(m, b) == [m EXCEPT !.ord[b] = @ + 1]

\* the permutations of the atoms that keep the connectivity
Automorphisms ==
    { p \in [Atoms -> Atoms] :
        /\ \A a, b \in Atoms : a # b => p[a] # p[b]
        /\ \A b \in Bonds : {p[a] : a \in b} \in Bonds }

\* Molecule.isIdentical: the same electronic assignment atom by atom
isIdentical(m1, m2) == m1 = m2

\* Molecule.isIsomorphic: the same assignment up to a relabelling of the atoms
isIsomorphic(m1, m2) ==
    \E p \in Automorphisms :
        /\ \A a \in Atoms :
              /\ m1.elem[a] = m2.elem[p[a]]
              /\ m1.H[a] = m2.H[p[a]]
              /\ m1.rad[a] = m2.rad[p[a]]
              /\ m1.lp[a] = m2.lp[p[a]]
              /\ m1.chg[a] = m2.chg[p[a]]
        /\ \A b \in Bonds : m1.ord[b] = m2.ord[{p[a] : a \in b}]

\* lone pairs of an uncharged atom of the inputs
SeedLonePairs(e) == CASE e = "C" -> {0} [] e = "N" -> {0, 1} [] e = "O" -> {2}

\* an input molecule: uncharged, every atom filled up with hydrogens
MakeMolecule(el, od, rd, lps) ==
    [ elem |-> [a \in Atoms |-> el[a]],
      H    |-> [a \in Atoms |->
                   ValenceElectrons(el[a]) - rd[a] - 2 * lps[a]
                   - SumOver(BondsOf(a), [b \in BondsOf(a) |-> od[b]])],
      rad  |-> rd,
      lp   |-> lps,
      chg  |-> [a \in Atoms |-> 0],
      ord  |-> od ]

InputMolecules ==
    { m \in { MakeMolecule(el, od, rd, lps) :
                el \in ElemPatterns, od \in [Bonds -> {1, 2, 3}],
                rd \in [Atoms -> 0..MaxRadical], lps \in [Atoms -> 0..2] } :
        \A a \in Atoms : m.lp[a] \in SeedLonePairs(m.elem[a]) /\ m.H[a] >= 0 }

---------------------------------------------------------------------------
(* The path finder (collaborator): the eligible paths that start at an atom *)

NumAtoms == Cardinality(Atoms)

\* every triple of atoms, in the order the atoms are iterated
AllTriples ==
    [k \in 1..(NumAtoms * NumAtoms * NumAtoms) |->
        << ((k - 1) \div (NumAtoms * NumAtoms)) + 1,
           (((k - 1) \div NumAtoms) % NumAtoms) + 1,
           ((k - 1) % NumAtoms) + 1 >>]

AllPairs ==
    [k \in 1..(NumAtoms * NumAtoms) |->
        << ((k - 1) \div NumAtoms) + 1, ((k - 1) % NumAtoms) + 1 >>]

\* pathfinder.findAllDelocalizationPaths: atom1 carries a radical, bond12 can
\* gain an order, bond23 can lose one without breaking
findAllDelocalizationPaths(m, v) ==
    LET Eligible(t) ==
            /\ t[1] = v /\ m.rad[v] > 0
            /\ {t[1], t[2]} \in Bonds /\ {t[2], t[3]} \in Bonds /\ t[1] # t[3]
            /\ m.ord[{t[1], t[2]}] \in {1, 2}
            /\ m.ord[{t[2], t[3]}] \in {2, 3}
    IN SelectSeq(AllTriples, Eligible)

\* pathfinder.findAllDelocalizationPathsLonePairRadical: atom1 carries a
\* radical; atom2, singly bonded to it, carries a lone pair and no radical
findAllDelocalizationPathsLonePairRadical(m, v) ==
    LET Eligible(t) ==
            /\ t[1] = v /\ m.rad[v] > 0
            /\ {t[1], t[2]} \in Bonds
            /\ m.ord[{t[1], t[2]}] = 1
            /\ m.lp[t[2]] > 0 /\ m.rad[t[2]] = 0
    IN SelectSeq(AllPairs, Eligible)

\* pathfinder.findAllDelocalizationPathsN5dd_N5ts: atom1 is a nitrogen with
\* two double bonds (direction 1) or a triple bond12 and a single bond13
\* (direction 2); atom3 gives up a lone pair
findAllDelocalizationPathsN5dd_N5ts(m, v) ==
    LET Shape(t) ==
            /\ t[1] = v /\ m.elem[v] = "N"
            /\ {t[1], t[2]} \in Bonds /\ {t[1], t[3]} \in Bonds /\ t[2] # t[3]
            /\ m.lp[t[3]] > 0
        Dir1(t) == Shape(t) /\ m.ord[{t[1], t[2]}] = 2 /\ m.ord[{t[1], t[3]}] = 2
        Dir2(t) == Shape(t) /\ m.ord[{t[1], t[2]}] = 3 /\ m.ord[{t[1], t[3]}] = 1
        WithDirection(s, d) == [k \in 1..Len(s) |-> <<s[k][1], s[k][2], s[k][3], d>>]
    IN WithDirection(SelectSeq(AllTriples, Dir1), 1)
         \o WithDirection(SelectSeq(AllTriples, Dir2), 2)

\* Molecule.isRadical
isRadical(m) == \E a \in Atoms : m.rad[a] > 0

---------------------------------------------------------------------------
(* The move appliers: mutate the working graph, copy it, restore it *)

\* mutant: the adjust leaves bond23 as it was
AdjacentAdjustKeepsBond23(m, p) ==
    incrementOrder(
      incrementRadical(decrementRadical(m, p[1]), p[3]),
      {p[1], p[2]})

\* generateAdjacentResonanceStructures: adjust to the new isomer
AdjacentAdjust(m, p) ==
    decrementOrder(
      incrementOrder(
        incrementRadical(decrementRadical(m, p[1]), p[3]),
        {p[1], p[2]}),
      {p[2], p[3]})

\* mutant: the restore leaves bond23 one order short
AdjacentRestoreForgetsBond23(m, p) ==
    decrementOrder(
      decrementRadical(incrementRadical(m, p[1]), p[3]),
      {p[1], p[2]})

\* generateAdjacentResonanceStructures: restore the current isomer
AdjacentRestore(m, p) ==
    incrementOrder(
      decrementOrder(
        decrementRadical(incrementRadical(m, p[1]), p[3]),
        {p[1], p[2]}),
      {p[2], p[3]})

\* mutant: the charge of atom2 is not recomputed after the shift
LonePairRadicalAdjustStaleCharge(m, p) ==
    LET m1 == updateCharge(incrementLonePairs(decrementRadical(m, p[1]), p[1]), p[1])
    IN decrementLonePairs(incrementRadical(m1, p[2]), p[2])

\* generateLonePairRadicalResonanceStructures: adjust to the new isomer
LonePairRadicalAdjust(m, p) ==
    LET m1 == updateCharge(incrementLonePairs(decrementRadical(m, p[1]), p[1]), p[1])
    IN updateCharge(decrementLonePairs(incrementRadical(m1, p[2]), p[2]), p[2])

\* generateLonePairRadicalResonanceStructures: restore the current isomer
LonePairRadicalRestore(m, p) ==
    LET m1 == updateCharge(decrementLonePairs(incrementRadical(m, p[1]), p[1]), p[1])
    IN updateCharge(incrementLonePairs(decrementRadical(m1, p[2]), p[2]), p[2])

\* the statements both direction branches of the N5dd/N5ts applier execute
N5ShiftStatements(m, p) ==
    LET m1 == incrementOrder(decrementOrder(m, {p[1], p[2]}), {p[1], p[3]})
        m2 == decrementLonePairs(incrementLonePairs(m1, p[2]), p[3])
    IN updateCharge(updateCharge(updateCharge(m2, p[1]), p[2]), p[3])

N5UnshiftStatements(m, p) ==
    LET m1 == decrementOrder(incrementOrder(m, {p[1], p[2]}), {p[1], p[3]})
        m2 == incrementLonePairs(decrementLonePairs(m1, p[2]), p[3])
    IN updateCharge(updateCharge(updateCharge(m2, p[1]), p[2]), p[3])

\* mutant: the branch of direction 2 runs the statements backwards
N5AdjustReversesDirection2(m, p) ==
    IF p[4] = 1 THEN N5ShiftStatements(m, p)
    ELSE IF p[4] = 2 THEN N5UnshiftStatements(m, p)
    ELSE m

\* generateN5dd_N5tsResonanceStructures: adjust, by the direction of the path
N5Adjust(m, p) ==
    IF p[4] = 1 THEN N5ShiftStatements(m, p)
    ELSE IF p[4] = 2 THEN N5ShiftStatements(m, p)
    ELSE m

\* generateN5dd_N5tsResonanceStructures: restore, by the direction of the path
N5Restore(m, p) ==
    IF p[4] = 1 THEN N5UnshiftStatements(m, p)
    ELSE IF p[4] = 2 THEN N5UnshiftStatements(m, p)
    ELSE m

Families == {"adjacent", "n5dd_n5ts", "lonePairRadical"}

PathsOf(fam, m, v) ==
    CASE fam = "adjacent" -> findAllDelocalizationPaths(m, v)
      [] fam = "lonePairRadical" -> findAllDelocalizationPathsLonePairRadical(m, v)
      [] fam = "n5dd_n5ts" -> findAllDelocalizationPathsN5dd_N5ts(m, v)

Adjust(fam, m, p) ==
    CASE fam = "adjacent" -> AdjacentAdjust(m, p)
      [] fam = "lonePairRadical" -> LonePairRadicalAdjust(m, p)
      [] fam = "n5dd_n5ts" -> N5Adjust(m, p)

Restore(fam, m, p) ==
    CASE fam = "adjacent" -> AdjacentRestore(m, p)
      [] fam = "lonePairRadical" -> LonePairRadicalRestore(m, p)
      [] fam = "n5dd_n5ts" -> N5Restore(m, p)

\* the radical families do nothing on a molecule without a radical
FamilyApplies(fam, m) == fam = "n5dd_n5ts" \/ isRadical(m)

\* one path of an applier: state is [mol |-> working graph, isomers |-> list]
ProcessPath(fam, st, p) ==
    LET adjusted == Adjust(fam, st.mol, p)
    IN [ mol     |-> Restore(fam, adjusted, p),
         isomers |-> Append(st.isomers, adjusted) ]

RECURSIVE ProcessPaths(_, _, _, _)
ProcessPaths(fam, st, ps, k) ==
    IF k > Len(ps) THEN st
    ELSE ProcessPaths(fam, ProcessPath(fam, st, ps[k]), ps, k + 1)

\* the loop over the vertices: the paths of a vertex are found on the working
\* graph as the earlier paths left it
RECURSIVE ProcessAtoms(_, _, _)
ProcessAtoms(fam, st, v) ==
    IF v > NumAtoms THEN st
    ELSE ProcessAtoms(fam,
                      ProcessPaths(fam, st, PathsOf(fam, st.mol, v), 1),
                      v + 1)

\* a move applier on a molecule object: the object afterwards and the
\* isomers returned
RunApplier(fam, molecule) ==
    IF FamilyApplies(fam, molecule)
    THEN ProcessAtoms(fam, [mol |-> molecule, isomers |-> <<>>], 1)
    ELSE [mol |-> molecule, isomers |-> <<>>]

generateAdjacentResonanceStructures(molecule) == RunApplier("adjacent", molecule).isomers

generateLonePairRadicalResonanceStructures(molecule) ==
    RunApplier("lonePairRadical", molecule).isomers

generateN5dd_N5tsResonanceStructures(molecule) == RunApplier("n5dd_n5ts", molecule).isomers

---------------------------------------------------------------------------
(* _generateResonanceStructures: the worklist engine *)

\* the test of the scan of the isomer list, by the mode
Equivalent(keep, molecule, newMol) ==
    IF keep THEN isIdentical(molecule, newMol) ELSE isIsomorphic(molecule, newMol)

\* mutant: the scan tests isIdentical in both modes
AppendIfUniqueIdentical(list, newMol, keep) ==
    IF \E i \in 1..Len(list) : isIdentical(list[i], newMol)
    THEN list
    ELSE Append(list, newMol)

\* mutant: the scan tests isIsomorphic in both modes
AppendIfUniqueIsomorphic(list, newMol, keep) ==
    IF \E i \in 1..Len(list) : isIsomorphic(list[i], newMol)
    THEN list
    ELSE Append(list, newMol)

\* mutant: no scan, every candidate is appended
AppendAlways(list, newMol, keep) == Append(list, newMol)

\* mutant: a new structure is put in front of the list
AppendIfUniqueInFront(list, newMol, keep) ==
    IF \E i \in 1..Len(list) : Equivalent(keep, list[i], newMol)
    THEN list
    ELSE <<newMol>> \o list

\* the for/else over molList: append newMol when no member is equivalent
AppendIfUnique(list, newMol, keep) ==
    IF \E i \in 1..Len(list) : Equivalent(keep, list[i], newMol)
    THEN list
    ELSE Append(list, newMol)

RECURSIVE AppendAllUnique(_, _, _, _)
AppendAllUnique(list, newMols, k, keep) ==
    IF k > Len(newMols) THEN list
    ELSE AppendAllUnique(AppendIfUnique(list, newMols[k], keep),
                         newMols, k + 1, keep)

\* the loop over methodList on the object molecule: the object afterwards and
\* newMolList
RECURSIVE RunMethods(_, _, _)
RunMethods(methods, st, k) ==
    IF k > Len(methods) THEN st
    ELSE LET r == RunApplier(methods[k], st.mol)
         IN RunMethods(methods,
                       [mol |-> r.mol, isomers |-> st.isomers \o r.isomers],
                       k + 1)

\* mutant: the index moves on by two
NextIndexSkip(i) == i + 2

\* index += 1
NextIndex(i) == i + 1

\* the candidates the methods produce from a molecule
NewMolList(methods, molecule) ==
    RunMethods(methods, [mol |-> molecule, isomers |-> <<>>], 1).isomers

\* the method lists a caller can hand over, in the order of
\* populateResonanceAlgorithms
MethodLists ==
    { <<>>, <<"adjacent">>, <<"n5dd_n5ts">>, <<"lonePairRadical">>,
      <<"adjacent", "n5dd_n5ts">>, <<"adjacent", "lonePairRadical">>,
      <<"n5dd_n5ts", "lonePairRadical">>,
      <<"adjacent", "n5dd_n5ts", "lonePairRadical">> }

AllMethods == <<"adjacent", "n5dd_n5ts", "lonePairRadical">>

\* the atoms in reverse order: the same molecule under another labelling
Mirror(m) ==
    LET r(a) == NumAtoms + 1 - a
    IN [ elem |-> [a \in Atoms |-> m.elem[r(a)]],
         H    |-> [a \in Atoms |-> m.H[r(a)]],
         rad  |-> [a \in Atoms |-> m.rad[r(a)]],
         lp   |-> [a \in Atoms |-> m.lp[r(a)]],
         chg  |-> [a \in Atoms |-> m.chg[r(a)]],
         ord  |-> [b \in Bonds |-> m.ord[{r(a) : a \in b}]] ]

SeqToSet(s) == {s[k] : k \in 1..Len(s)}

\* the seed lists: one molecule, or it with a second structure of the same
\* molecule (itself, its mirror image, or one of its one-step candidates)
SeedLists ==
    UNION { {<<m>>} \cup { <<m, m2>> :
                m2 \in {m, Mirror(m)} \cup SeqToSet(NewMolList(AllMethods, m)) } :
            m \in InputMolecules }

\* the structures a finite sequence of one-step moves reaches from S
RECURSIVE ReachableFrom(_, _)
ReachableFrom(S, methods) ==
    LET T == S \cup UNION { SeqToSet(NewMolList(methods, m)) : m \in S }
    IN IF T = S THEN S ELSE ReachableFrom(T, methods)

\* the list never holds more than the seeds and the reachable structures
ListBound(seeds, methods) ==
    Len(seeds) + Cardinality(ReachableFrom(SeqToSet(seeds), methods))

\* no move applier is being stepped through
IdleMove ==
    /\ mol = <<>> /\ mol0 = <<>> /\ family = "" /\ atom = 0
    /\ paths = <<>> /\ isomer = <<>> /\ isomers = <<>>

\* generateResonanceStructures is not running
IdleGen == gen = <<>>

\* _clarOptimization is not running
IdleClar == clar = <<>>

\* none of the other functions is running
IdleFrame == frame = <<>>

InitSat ==
    /\ IdleMove
    /\ IdleGen
    /\ IdleClar
    /\ IdleFrame
    /\ seedList \in SeedLists
    /\ molList = seedList
    /\ methodList \in MethodLists
    /\ listBound = ListBound(seedList, methodList)
    /\ keepIsomorphic \in BOOLEAN
    /\ index = 0
    /\ newMolList = <<>>
    /\ pc = "run"

\* the loop test holds: the methods run on molList[index]; the molecule is
\* the list's own object, so what the appliers leave of it stays in the list
SatApply ==
    /\ pc = "run"
    /\ index < Len(molList)
    /\ Len(molList) < MaxList
    /\ \A k \in 1..Len(methodList) : methodList[k] \in Families
    /\ LET r == RunMethods(methodList, [mol |-> molList[index + 1], isomers |-> <<>>], 1)
       IN /\ newMolList' = r.isomers
          /\ molList' = [molList EXCEPT ![index + 1] = r.mol]
    /\ pc' = "scan"
    /\ UNCHANGED <<index, methodList, keepIsomorphic, seedList, listBound>>
    /\ UNCHANGED <<varsMove, gen, clar, frame>>

\* isomer.updateAtomTypes raised AtomTypeError on one of the candidates: the
\* exception leaves the applier and the engine
SatRaise ==
    /\ pc = "scan"
    /\ newMolList # <<>>
    /\ \E k \in 1..Len(methodList) : methodList[k] \in Families
    /\ pc' = "raised"
    /\ UNCHANGED <<varsSat, gen, clar, frame>>
    /\ UNCHANGED <<varsMove, gen, clar, frame>>

\* every candidate revalidated: the for loop over newMolList, then index += 1
SatAppend ==
    /\ pc = "scan"
    /\ molList' = AppendAllUnique(molList, newMolList, 1, keepIsomorphic)
    /\ index' = NextIndex(index)
    /\ newMolList' = <<>>
    /\ pc' = "run"
    /\ UNCHANGED <<methodList, keepIsomorphic, seedList, listBound>>
    /\ UNCHANGED <<varsMove, gen, clar, frame>>

\* the loop test fails: return molList
SatReturn ==
    /\ pc = "run"
    /\ index >= Len(molList)
    /\ pc' = "done"
    /\ UNCHANGED <<varsSat, gen, clar, frame>>
    /\ UNCHANGED <<varsMove, gen, clar, frame>>

NextSat == SatApply \/ SatRaise \/ SatAppend \/ SatReturn

SpecSat == InitSat /\ [][NextSat]_vars

---------------------------------------------------------------------------
(* A move applier, statement by statement *)

\* the engine is not running
IdleSat ==
    /\ molList = <<>> /\ index = 0 /\ methodList = <<>> /\ keepIsomorphic = FALSE
    /\ seedList = <<>> /\ newMolList = <<>> /\ listBound = 0

InitMove ==
    /\ IdleSat
    /\ IdleGen
    /\ IdleClar
    /\ IdleFrame
    /\ mol \in InputMolecules
    /\ mol0 = mol
    /\ family \in Families
    /\ atom = 1
    /\ paths = <<>>
    /\ isomer = mol
    /\ isomers = <<>>
    /\ pc = "start"

\* isomers = []; the radical families go on only if mol.isRadical()
MoveEnter ==
    /\ pc = "start"
    /\ pc' = IF FamilyApplies(family, mol) THEN "vertex" ELSE "done"
    /\ UNCHANGED <<varsMove, gen, clar, frame>>
    /\ UNCHANGED <<varsSat, gen, clar, frame>>

\* for atom in mol.vertices: paths = pathfinder...(atom)
MoveFindPaths ==
    /\ pc = "vertex"
    /\ atom <= NumAtoms
    /\ paths' = PathsOf(family, mol, atom)
    /\ pc' = "path"
    /\ UNCHANGED <<mol, mol0, family, atom, isomer, isomers>>
    /\ UNCHANGED <<varsSat, gen, clar, frame>>

\* the vertices are exhausted: return isomers
MoveReturn ==
    /\ pc = "vertex"
    /\ atom > NumAtoms
    /\ pc' = "done"
    /\ UNCHANGED <<varsMove, gen, clar, frame>>
    /\ UNCHANGED <<varsSat, gen, clar, frame>>

\* the paths of the vertex are exhausted: on to the next vertex
MoveNextAtom ==
    /\ pc = "path"
    /\ paths = <<>>
    /\ atom' = atom + 1
    /\ pc' = "vertex"
    /\ UNCHANGED <<mol, mol0, family, paths, isomer, isomers>>
    /\ UNCHANGED <<varsSat, gen, clar, frame>>

\* adjust to the (potentially) new resonance isomer, on the object mol
MoveAdjust ==
    /\ pc = "path"
    /\ paths # <<>>
    /\ mol' = Adjust(family, mol, Head(paths))
    /\ pc' = "adjusted"
    /\ UNCHANGED <<mol0, family, atom, paths, isomer, isomers>>
    /\ UNCHANGED <<varsSat, gen, clar, frame>>

\* isomer = mol.copy(deep=True), with the connectivity values copied over
MoveCopy ==
    /\ pc = "adjusted"
    /\ isomer' = mol
    /\ pc' = "copied"
    /\ UNCHANGED <<mol, mol0, family, atom, paths, isomers>>
    /\ UNCHANGED <<varsSat, gen, clar, frame>>

\* restore the current isomer
MoveRestore ==
    /\ pc = "copied"
    /\ mol' = Restore(family, mol, Head(paths))
    /\ pc' = "restored"
    /\ UNCHANGED <<mol0, family, atom, paths, isomer, isomers>>
    /\ UNCHANGED <<varsSat, gen, clar, frame>>

\* isomer.updateAtomTypes finds a type for every atom: isomers.append(isomer)
MoveAppend ==
    /\ pc = "restored"
    /\ isomers' = Append(isomers, isomer)
    /\ paths' = Tail(paths)
    /\ pc' = "path"
    /\ UNCHANGED <<mol, mol0, family, atom, isomer>>
    /\ UNCHANGED <<varsSat, gen, clar, frame>>

\* mutant: the atom types of the copy are updated before the molecule is
\* restored
MoveRaiseBeforeRestore ==
    /\ pc = "copied"
    /\ pc' = "raised"
    /\ UNCHANGED <<varsMove, gen, clar, frame>>
    /\ UNCHANGED <<varsSat, gen, clar, frame>>

\* isomer.updateAtomTypes raises AtomTypeError, which nothing in the applier
\* catches
MoveRaise ==
    /\ pc = "restored"
    /\ pc' = "raised"
    /\ UNCHANGED <<varsMove, gen, clar, frame>>
    /\ UNCHANGED <<varsSat, gen, clar, frame>>

\* the caller goes on with one of the returned isomers, as the engine does
\* when its index reaches it
MoveAgain ==
    /\ pc = "done"
    /\ \E k \in 1..Len(isomers) :
          /\ mol' = isomers[k]
          /\ mol0' = isomers[k]
          /\ isomer' = isomers[k]
    /\ family' \in Families
    /\ atom' = 1
    /\ paths' = <<>>
    /\ isomers' = <<>>
    /\ pc' = "start"
    /\ UNCHANGED <<varsSat, gen, clar, frame>>

NextMove ==
    \/ MoveEnter \/ MoveFindPaths \/ MoveReturn \/ MoveNextAtom \/ MoveAdjust
    \/ MoveCopy \/ MoveRestore \/ MoveAppend \/ MoveRaise \/ MoveAgain

SpecMove == InitMove /\ [][NextMove]_vars

---------------------------------------------------------------------------
(* generateResonanceStructures: the top-level entry point *)

\* the structures ring perception, kekulize and the Clar optimisation
\* (collaborators) can hand back for a molecule: the molecule and the
\* structures one move away from it
Forms(molecule) == {molecule} \cup SeqToSet(NewMolList(AllMethods, molecule))

\* the sequences of at most two members of S
SeqsUpTo2(S) ==
    {<<>>} \cup {<<a>> : a \in S} \cup {<<a, b>> : a \in S, b \in S}

\* analyzeMolecule: the radical, nitrogen, oxygen and lone-pair features are
\* read off the atoms; the ring features come from ring perception
analyzeMolecule(molecule) ==
    { f \in [ isRadical : {isRadical(molecule)},
              isCyclic : BOOLEAN,
              isAromatic : BOOLEAN,
              isPolycyclicAromatic : BOOLEAN,
              isArylRadical : BOOLEAN,
              hasNitrogen : {\E a \in Atoms : molecule.elem[a] = "N"},
              hasOxygen : {\E a \in Atoms : molecule.elem[a] = "O"},
              hasLonePairs : {\E a \in Atoms : molecule.lp[a] > 0} ] :
        /\ f.isAromatic => f.isCyclic
        /\ f.isPolycyclicAromatic => f.isAromatic
        /\ f.isArylRadical => (f.isRadical /\ f.isAromatic) }

\* populateResonanceAlgorithms(features)
populateResonanceAlgorithms(features) ==
    (IF features.isRadical /\ ~features.isAromatic /\ ~features.isArylRadical
     THEN <<"adjacent">> ELSE <<>>)
    \o (IF features.hasNitrogen THEN <<"n5dd_n5ts">> ELSE <<>>)
    \o (IF features.hasLonePairs THEN <<"lonePairRadical">> ELSE <<>>)

\* generateAromaticResonanceStructures, its last loop: a reconciled candidate
\* is kept unless it is isomorphic to one kept before
RECURSIVE AromaticUnique(_, _, _)
AromaticUnique(list, cands, k) ==
    IF k > Len(cands) THEN list
    ELSE AromaticUnique(
           IF \E i \in 1..Len(list) : isIsomorphic(list[i], cands[k])
           THEN list ELSE Append(list, cands[k]),
           cands, k + 1)

\* what a ring method returns for one molecule: generateKekuleStructure at
\* most one structure, generateClarStructures a list
RingResults(method, forms) ==
    IF method = "kekule"
    THEN {<<>>} \cup {<<a>> : a \in forms}
    ELSE SeqsUpTo2(forms)

\* list without the elements at the 0-based positions i..j-1
DeleteSlice(list, i, j) ==
    SubSeq(list, 1, i) \o SubSeq(list, j + 1, Len(list))

\* mutant: the check against the original molecule removes nothing
RemoveOriginalNever(molecule, list, keep) == list

\* mutant: the check against the original molecule tests isIdentical in
\* both modes
RemoveOriginalIdentical(molecule, list, keep) ==
    LET hits == {i \in 1..Len(list) : isIdentical(molecule, list[i])}
    IN IF hits = {} THEN list
       ELSE LET i == CHOOSE h \in hits : \A h2 \in hits : h <= h2
            IN DeleteSlice(list, i - 1, i)

\* the check against the original molecule: the first candidate equivalent
\* to it under the mode is deleted, and the loop ends
RemoveOriginal(molecule, list, keep) ==
    LET hits == {i \in 1..Len(list) : Equivalent(keep, molecule, list[i])}
    IN IF hits = {} THEN list
       ELSE LET i == CHOOSE h \in hits : \A h2 \in hits : h <= h2
            IN DeleteSlice(list, i - 1, i)

\* mutant: the candidates are put in front of the original list
ExtendInFront(list, newMols) == newMols \o list

\* molList.extend(newMolList)
Extend(list, newMols) == list \o newMols

\* the condition of the calls of generateAromaticResonanceStructures
ChecksAromatic(features) ==
    \/ features.isAromatic
    \/ features.isCyclic /\ features.isRadical /\ ~features.isArylRadical

RadicalNotAryl(features) == features.isRadical /\ ~features.isArylRadical

\* a call of _generateResonanceStructures(list, methods, keep)
CallEngine(list, methods, keep) ==
    /\ molList' = list
    /\ seedList' = list
    /\ methodList' = methods
    /\ keepIsomorphic' = keep
    /\ index' = 0
    /\ newMolList' = <<>>
    /\ listBound' = MaxList
    /\ pc' = "run"

\* the frame of a returned call is dropped
ReturnEngine ==
    /\ molList' = <<>> /\ index' = 0 /\ methodList' = <<>>
    /\ keepIsomorphic' = FALSE /\ seedList' = <<>> /\ newMolList' = <<>>
    /\ listBound' = 0
    /\ pc' = "gen"

InitGen ==
    /\ IdleSat
    /\ IdleMove
    /\ IdleClar
    /\ IdleFrame
    /\ \E molecule \in InputMolecules :
         \E features \in analyzeMolecule(molecule) :
           \E cs \in BOOLEAN, keep \in BOOLEAN :
             gen = [ mol |-> molecule,
                     clarStructures |-> cs,
                     keepIsomorphic |-> keep,
                     features |-> features,
                     molList |-> <<molecule>>,
                     newMolList |-> <<>>,
                     i |-> 0,
                     j |-> 0,
                     deleted |-> 0,
                     forms |-> Forms(molecule),
                     at |-> "analyzed" ]
    /\ pc = "gen"

\* a ring method runs on molList[index]: it works on a deep copy and hands
\* back what the collaborator produced
SatApplyRing ==
    /\ pc = "run"
    /\ index < Len(molList)
    /\ Len(molList) < MaxList
    /\ methodList \in {<<"kekule">>, <<"clar">>}
    /\ newMolList' \in RingResults(methodList[1], gen.forms)
    /\ pc' = "scan"
    /\ UNCHANGED <<molList, index, methodList, keepIsomorphic, seedList, listBound>>
    /\ UNCHANGED <<varsMove, gen, clar, frame>>

\* newMolList = generateAromaticResonanceStructures(mol, features); an empty
\* result is a false positive
GenAromatic ==
    /\ pc = "gen"
    /\ gen.at = "analyzed"
    /\ ChecksAromatic(gen.features)
    /\ \E cands \in SeqsUpTo2(gen.forms) :
         LET nl == AromaticUnique(<<>>, cands, 1)
         IN gen' = [gen EXCEPT
                      !.newMolList = nl,
                      !.features = IF Len(nl) = 0
                                   THEN [@ EXCEPT !.isAromatic = FALSE,
                                                  !.isPolycyclicAromatic = FALSE]
                                   ELSE @,
                      !.at = "special"]
    /\ UNCHANGED <<pc, varsSat, varsMove, clar, frame>>

\* else: newMolList = []
GenNotAromatic ==
    /\ pc = "gen"
    /\ gen.at = "analyzed"
    /\ ~ChecksAromatic(gen.features)
    /\ gen' = [gen EXCEPT !.newMolList = <<>>, !.at = "special"]
    /\ UNCHANGED <<pc, varsSat, varsMove, clar, frame>>

\* len(newMolList) == 0: no special handling
GenSkipSpecial ==
    /\ pc = "gen"
    /\ gen.at = "special"
    /\ Len(gen.newMolList) = 0
    /\ gen' = [gen EXCEPT !.at = "populate"]
    /\ UNCHANGED <<pc, varsSat, varsMove, clar, frame>>

\* radical polycyclic aromatic with Clar structures: the Kekule structures
GenKekule174 ==
    /\ pc = "gen"
    /\ gen.at = "special"
    /\ Len(gen.newMolList) > 0
    /\ RadicalNotAryl(gen.features)
    /\ gen.features.isPolycyclicAromatic
    /\ gen.clarStructures
    /\ CallEngine(gen.newMolList, <<"kekule">>, gen.keepIsomorphic)
    /\ gen' = [gen EXCEPT !.at = "174"]
    /\ UNCHANGED <<varsMove, clar, frame>>

\* then the adjacent structures, on the same list
GenAdjacent175 ==
    /\ pc = "done"
    /\ gen.at = "174"
    /\ CallEngine(molList, <<"adjacent">>, gen.keepIsomorphic)
    /\ gen' = [gen EXCEPT !.newMolList = molList, !.at = "175"]
    /\ UNCHANGED <<varsMove, clar, frame>>

\* then the Clar structures, on the same list
GenClar176 ==
    /\ pc = "done"
    /\ gen.at = "175"
    /\ CallEngine(molList, <<"clar">>, gen.keepIsomorphic)
    /\ gen' = [gen EXCEPT !.newMolList = molList, !.at = "176"]
    /\ UNCHANGED <<varsMove, clar, frame>>

\* newMolList = [m for m in newMolList if m.isAromatic()]; isomorphic
\* structures are aromatic together
GenFilter178 ==
    /\ pc = "done"
    /\ gen.at = "176"
    /\ \E aromatic \in SUBSET gen.forms :
         /\ \A a \in aromatic, b \in gen.forms : isIsomorphic(a, b) => b \in aromatic
         /\ LET isAromatic(m) == m \in aromatic
            IN gen' = [gen EXCEPT !.newMolList = SelectSeq(molList, isAromatic),
                                  !.at = "check"]
    /\ ReturnEngine
    /\ UNCHANGED <<varsMove, clar, frame>>

\* radical monocyclic aromatic: the Kekule structures; the mode is not
\* handed over, so this call runs in the default mode
GenKekule183 ==
    /\ pc = "gen"
    /\ gen.at = "special"
    /\ Len(gen.newMolList) > 0
    /\ RadicalNotAryl(gen.features)
    /\ ~gen.features.isPolycyclicAromatic
    /\ CallEngine(gen.newMolList, <<"kekule">>, FALSE)
    /\ gen' = [gen EXCEPT !.i = Len(gen.newMolList), !.at = "183"]
    /\ UNCHANGED <<varsMove, clar, frame>>

\* j = len(newMolList), then the adjacent structures on the same list
GenAdjacent185 ==
    /\ pc = "done"
    /\ gen.at = "183"
    /\ CallEngine(molList, <<"adjacent">>, gen.keepIsomorphic)
    /\ gen' = [gen EXCEPT !.newMolList = molList, !.j = Len(molList), !.at = "185"]
    /\ UNCHANGED <<varsMove, clar, frame>>

\* del newMolList[i:j]
GenDelete187 ==
    /\ pc = "done"
    /\ gen.at = "185"
    /\ gen' = [gen EXCEPT !.newMolList = DeleteSlice(molList, gen.i, gen.j),
                          !.at = "check"]
    /\ ReturnEngine
    /\ UNCHANGED <<varsMove, clar, frame>>

\* stable polycyclic aromatic with Clar structures
GenClar190 ==
    /\ pc = "gen"
    /\ gen.at = "special"
    /\ Len(gen.newMolList) > 0
    /\ ~RadicalNotAryl(gen.features)
    /\ gen.features.isPolycyclicAromatic
    /\ gen.clarStructures
    /\ CallEngine(gen.newMolList, <<"clar">>, gen.keepIsomorphic)
    /\ gen' = [gen EXCEPT !.at = "190"]
    /\ UNCHANGED <<varsMove, clar, frame>>

GenAfter190 ==
    /\ pc = "done"
    /\ gen.at = "190"
    /\ gen' = [gen EXCEPT !.newMolList = molList, !.at = "check"]
    /\ ReturnEngine
    /\ UNCHANGED <<varsMove, clar, frame>>

\* the three branches that pass
GenPass ==
    /\ pc = "gen"
    /\ gen.at = "special"
    /\ Len(gen.newMolList) > 0
    /\ \/ gen.features.isPolycyclicAromatic /\ ~gen.clarStructures
       \/ ~RadicalNotAryl(gen.features) /\ ~gen.features.isPolycyclicAromatic
    /\ gen' = [gen EXCEPT !.at = "check"]
    /\ UNCHANGED <<pc, varsSat, varsMove, clar, frame>>

\* check for isomorphism against the original molecule, then
\* molList.extend(newMolList)
GenCheckOriginal ==
    /\ pc = "gen"
    /\ gen.at = "check"
    /\ LET kept == RemoveOriginal(gen.mol, gen.newMolList, gen.keepIsomorphic)
       IN gen' = [gen EXCEPT !.newMolList = kept,
                             !.deleted = Len(gen.newMolList) - Len(kept),
                             !.molList = Extend(gen.molList, kept),
                             !.at = "populate"]
    /\ UNCHANGED <<pc, varsSat, varsMove, clar, frame>>

\* methodList = populateResonanceAlgorithms(features), and the remaining
\* resonance structures
GenSaturate214 ==
    /\ pc = "gen"
    /\ gen.at = "populate"
    /\ CallEngine(gen.molList, populateResonanceAlgorithms(gen.features),
                  gen.keepIsomorphic)
    /\ gen' = [gen EXCEPT !.at = "214"]
    /\ UNCHANGED <<varsMove, clar, frame>>

\* return molList
GenReturn ==
    /\ pc = "done"
    /\ gen.at = "214"
    /\ gen' = [gen EXCEPT !.molList = molList, !.at = "returned"]
    /\ ReturnEngine
    /\ UNCHANGED <<varsMove, clar, frame>>

NextGen ==
    \/ GenAromatic \/ GenNotAromatic \/ GenSkipSpecial
    \/ GenKekule174 \/ GenAdjacent175 \/ GenClar176 \/ GenFilter178
    \/ GenKekule183 \/ GenAdjacent185 \/ GenDelete187
    \/ GenClar190 \/ GenAfter190 \/ GenPass
    \/ GenCheckOriginal \/ GenSaturate214 \/ GenReturn
    \/ SatApply \/ SatApplyRing \/ SatRaise \/ SatAppend \/ SatReturn

SpecGen == InitGen /\ [][NextGen]_vars

---------------------------------------------------------------------------
(* _clarOptimization and generateClarStructures *)

\* the aromatic rings of the molecule
Rings == 1..MaxRings

\* the double-bond assignments told apart
BondPatterns == {"a", "b"}

\* an assignment of the base model: y the rings that are sextets, x the
\* double bonds
Points == [y : SUBSET Rings, x : BondPatterns]

\* mutant: the right-hand side of the constraint is sum(y0) - 2
SatisfiesConstraintOneLess(y, y0) == Cardinality(y \cap y0) <= Cardinality(y0) - 2

\* mutant: the constraint excludes nothing
SatisfiesConstraintAlways(y, y0) == TRUE

\* constraint (new_a, new_b) of an earlier solution y0: the sextets of y that
\* are sextets of y0 number at most sum(y0) - 1
SatisfiesConstraint(y, y0) == Cardinality(y \cap y0) <= Cardinality(y0) - 1

\* the assignments the solver may still return
FeasibleUnder(feasible, constraints) ==
    { p \in feasible :
        \A k \in 1..Len(constraints) : SatisfiesConstraint(p.y, constraints[k]) }

\* the largest number of sextets among the assignments of S
MaxSextets(S) ==
    IF S = {} THEN 0
    ELSE LET n == CHOOSE c \in 0..MaxRings :
                      /\ \E p \in S : Cardinality(p.y) = c
                      /\ \A p \in S : Cardinality(p.y) <= c
         IN n

\* lpsolve (collaborator): status 2 when nothing is feasible, else status 0
\* and an assignment with the largest objective; the values it reports may
\* fail to be 0 or 1
Solve(feasible, constraints) ==
    LET ok == FeasibleUnder(feasible, constraints)
    IN IF ok = {}
       THEN { [status |-> 2, objVal |-> 0, y |-> {}, x |-> "a", integral |-> TRUE] }
       ELSE { [status |-> 0, objVal |-> Cardinality(p.y), y |-> p.y, x |-> p.x,
               integral |-> b] :
              p \in {q \in ok : Cardinality(q.y) = MaxSextets(ok)}, b \in BOOLEAN }

\* mutant: a solution below maxNum is accepted
SubOptimalNever(objVal, maxNum) == FALSE

\* elif objVal < maxNum, with maxNum not None
SubOptimal(objVal, maxNum) == maxNum # <<>> /\ objVal < maxNum[1]

\* the checks that raise ILPSolutionError, in the order of the code
RaisesILPSolutionError(solution, maxNum) ==
    \/ solution.status # 0
    \/ /\ solution.objVal # 0
       /\ \/ SubOptimal(solution.objVal, maxNum)
          \/ ~solution.integral

\* the feasible set of the base model (equality constraints of the atoms and
\* the bounds of the exocyclic bonds) holds at most MaxRings assignments
InitClar ==
    /\ IdleSat
    /\ IdleMove
    /\ IdleGen
    /\ IdleFrame
    /\ \E n \in 0..MaxRings, aromaticRings \in {{}, Rings} :
       \E s \in [1..n -> Points] :
         /\ aromaticRings = {} => n = 0
         /\ clar = [
                  feasible |-> SeqToSet(s),
                  aromaticRings |-> aromaticRings,
                  constraints |-> <<>>,
                  maxNum |-> <<>>,
                  waiting |-> <<>>,
                  solution |-> <<>>,
                  innerSolutions |-> <<>>,
                  molList |-> <<>>,
                  at |-> "enter" ]
    /\ pc = "clar"

\* if not aromaticRings: return []
ClarNoRings ==
    /\ clar.at = "enter"
    /\ clar.aromaticRings = {}
    /\ clar' = [clar EXCEPT !.innerSolutions = <<>>, !.at = "unwind"]
    /\ UNCHANGED <<pc, varsSat, varsMove, gen, frame>>

\* the model is built and solved under the constraints handed over
ClarSolve ==
    /\ clar.at = "enter"
    /\ clar.aromaticRings # {}
    /\ \E s \in Solve(clar.feasible, clar.constraints) :
         clar' = [clar EXCEPT !.solution = s, !.at = "check"]
    /\ UNCHANGED <<pc, varsSat, varsMove, gen, frame>>

\* ILPSolutionError in the outermost call: it leaves _clarOptimization
ClarRaiseOut ==
    /\ clar.at = "check"
    /\ RaisesILPSolutionError(clar.solution, clar.maxNum)
    /\ clar.waiting = <<>>
    /\ clar' = [clar EXCEPT !.at = "raised"]
    /\ UNCHANGED <<pc, varsSat, varsMove, gen, frame>>

\* mutant: the error of an inner call goes through every call above it
ClarRaiseThrough ==
    /\ clar.at = "check"
    /\ RaisesILPSolutionError(clar.solution, clar.maxNum)
    /\ clar.waiting # <<>>
    /\ clar' = [clar EXCEPT !.innerSolutions = <<>>, !.waiting = <<>>,
                            !.at = "unwind"]
    /\ UNCHANGED <<pc, varsSat, varsMove, gen, frame>>

\* ILPSolutionError in an inner call: the call above catches it,
\* innerSolutions = []
ClarRaiseCaught ==
    /\ clar.at = "check"
    /\ RaisesILPSolutionError(clar.solution, clar.maxNum)
    /\ clar.waiting # <<>>
    /\ clar' = [clar EXCEPT !.innerSolutions = <<>>, !.at = "unwind"]
    /\ UNCHANGED <<pc, varsSat, varsMove, gen, frame>>

\* if objVal == 0: return []
ClarNoSextet ==
    /\ clar.at = "check"
    /\ clar.solution.status = 0
    /\ clar.solution.objVal = 0
    /\ clar' = [clar EXCEPT !.innerSolutions = <<>>, !.at = "unwind"]
    /\ UNCHANGED <<pc, varsSat, varsMove, gen, frame>>

\* mutant: the optimisation runs again without the constraint of the
\* solution
ClarRecurseWithoutConstraint ==
    /\ clar.at = "check"
    /\ ~RaisesILPSolutionError(clar.solution, clar.maxNum)
    /\ clar.solution.objVal # 0
    /\ clar' = [clar EXCEPT
                  !.maxNum = IF @ = <<>> THEN <<clar.solution.objVal>> ELSE @,
                  !.waiting = Append(@, clar.solution),
                  !.at = "enter"]
    /\ UNCHANGED <<pc, varsSat, varsMove, gen, frame>>

\* the solution stands: maxNum is set by the first one, the constraint of
\* the solution is appended and the optimisation runs again
ClarRecurse ==
    /\ clar.at = "check"
    /\ ~RaisesILPSolutionError(clar.solution, clar.maxNum)
    /\ clar.solution.objVal # 0
    /\ clar' = [clar EXCEPT
                  !.maxNum = IF @ = <<>> THEN <<clar.solution.objVal>> ELSE @,
                  !.constraints = Append(@, clar.solution.y),
                  !.waiting = Append(@, clar.solution),
                  !.at = "enter"]
    /\ UNCHANGED <<pc, varsSat, varsMove, gen, frame>>

\* return innerSolutions + [(molecule, aromaticRings, bonds, solution)]
ClarReturnInner ==
    /\ clar.at = "unwind"
    /\ clar.waiting # <<>>
    /\ clar' = [clar EXCEPT
                  !.innerSolutions = Append(@, clar.waiting[Len(clar.waiting)]),
                  !.waiting = SubSeq(@, 1, Len(@) - 1)]
    /\ UNCHANGED <<pc, varsSat, varsMove, gen, frame>>

\* the outermost call returns: output of generateClarStructures
ClarReturnOut ==
    /\ clar.at = "unwind"
    /\ clar.waiting = <<>>
    /\ clar' = [clar EXCEPT !.at = "output"]
    /\ UNCHANGED <<pc, varsSat, varsMove, gen, frame>>

\* generateClarStructures: a structure is built from every solution of the
\* output; those whose atom types cannot be updated are left out
ClarStructures ==
    /\ clar.at = "output"
    /\ \E typed \in SUBSET (1..Len(clar.innerSolutions)) :
         LET isTyped(k) == k \in typed
             kept == SelectSeq([k \in 1..Len(clar.innerSolutions) |-> k], isTyped)
         IN clar' = [clar EXCEPT
                       !.molList = [k \in 1..Len(kept) |-> clar.innerSolutions[kept[k]]],
                       !.at = "returned"]
    /\ UNCHANGED <<pc, varsSat, varsMove, gen, frame>>

\* generateClarStructures: except ILPSolutionError: return []
ClarStructuresNone ==
    /\ clar.at = "raised"
    /\ clar' = [clar EXCEPT !.molList = <<>>, !.at = "returned"]
    /\ UNCHANGED <<pc, varsSat, varsMove, gen, frame>>

NextClar ==
    \/ ClarNoRings \/ ClarSolve \/ ClarRaiseOut \/ ClarRaiseCaught
    \/ ClarNoSextet \/ ClarRecurse \/ ClarReturnInner \/ ClarReturnOut
    \/ ClarStructures \/ ClarStructuresNone

SpecClar == InitClar /\ [][NextClar]_vars

---------------------------------------------------------------------------
(* generateOppositeKekuleStructure *)

\* the atoms of a ring from getAromaticRings, a ring of six
RingSize == 6

\* the single and the double bonds a ring must have, three each
HalfRing == 3

\* bond orders: single, double, triple, benzene
Orders == {"S", "D", "T", "B"}

\* the bonds of aromaticBonds[0], in the order of the list
RingBonds == 1..RingSize

\* mutant: a double bond is left double
InvertOrderKeepsDouble(o) == "D"

\* bond.order = 2 for a single bond, bond.order = 1 for a double bond
InvertOrder(o) == IF o = "S" THEN "D" ELSE "S"

\* the number of bonds of the ring with order o
CountOrder(ring, o) == Cardinality({b \in RingBonds : ring[b] = o})

\* the molecule is in its aromatic form (mol.isAromatic(), collaborator)
\* only if it has a ring of benzene bonds: with one aromatic ring, that ring
InitOpp ==
    /\ IdleSat
    /\ IdleMove
    /\ IdleGen
    /\ IdleClar
    /\ \E ring \in [RingBonds -> Orders], n \in 0..2, aromatic \in BOOLEAN :
         /\ aromatic => (n # 1 \/ \E b \in RingBonds : ring[b] = "B")
         /\ frame = [ fn |-> "generateOppositeKekuleStructure",
                      mol |-> ring,
                      isAromatic |-> aromatic,
                      numRings |-> n,
                      molecule |-> <<>>,
                      bond |-> 0,
                      numS |-> 0,
                      numD |-> 0,
                      typeError |-> FALSE,
                      result |-> <<>>,
                      at |-> "start" ]
    /\ pc = "opposite"

\* if mol.isAromatic(): return []
OppAromatic ==
    /\ frame.at = "start"
    /\ frame.isAromatic
    /\ frame' = [frame EXCEPT !.result = <<>>, !.at = "returned"]
    /\ UNCHANGED <<pc, varsSat, varsMove, gen, clar>>

\* molecule = mol.copy(deep=True); aromaticBonds = ...
OppCopy ==
    /\ frame.at = "start"
    /\ ~frame.isAromatic
    /\ frame' = [frame EXCEPT !.molecule = frame.mol, !.at = "rings"]
    /\ UNCHANGED <<pc, varsSat, varsMove, gen, clar>>

\* if len(aromaticBonds) != 1: return []
OppNotOneRing ==
    /\ frame.at = "rings"
    /\ frame.numRings # 1
    /\ frame' = [frame EXCEPT !.result = <<>>, !.at = "returned"]
    /\ UNCHANGED <<pc, varsSat, varsMove, gen, clar>>

\* numS = 0; numD = 0; the loop over aromaticBonds[0] starts
OppEnterLoop ==
    /\ frame.at = "rings"
    /\ frame.numRings = 1
    /\ frame' = [frame EXCEPT !.numS = 0, !.numD = 0, !.bond = 1, !.at = "loop"]
    /\ UNCHANGED <<pc, varsSat, varsMove, gen, clar>>

\* a single or a double bond of the copy is counted and inverted
OppInvertBond ==
    /\ frame.at = "loop"
    /\ frame.bond <= RingSize
    /\ frame.molecule[frame.bond] \in {"S", "D"}
    /\ frame' = [frame EXCEPT
                   !.numS = IF frame.molecule[frame.bond] = "S" THEN @ + 1 ELSE @,
                   !.numD = IF frame.molecule[frame.bond] = "D" THEN @ + 1 ELSE @,
                   !.molecule[frame.bond] = InvertOrder(@),
                   !.bond = @ + 1]
    /\ UNCHANGED <<pc, varsSat, varsMove, gen, clar>>

\* a bond that is not single or double: return []
OppOtherBond ==
    /\ frame.at = "loop"
    /\ frame.bond <= RingSize
    /\ frame.molecule[frame.bond] \notin {"S", "D"}
    /\ frame' = [frame EXCEPT !.result = <<>>, !.at = "returned"]
    /\ UNCHANGED <<pc, varsSat, varsMove, gen, clar>>

\* if numS != 3 or numD != 3: return []
OppWrongCounts ==
    /\ frame.at = "loop"
    /\ frame.bond > RingSize
    /\ frame.numS # HalfRing \/ frame.numD # HalfRing
    /\ frame' = [frame EXCEPT !.result = <<>>, !.at = "returned"]
    /\ UNCHANGED <<pc, varsSat, varsMove, gen, clar>>

\* molecule.updateAtomTypes() finds a type for every atom: return [molecule]
OppReturn ==
    /\ frame.at = "loop"
    /\ frame.bond > RingSize
    /\ frame.numS = HalfRing /\ frame.numD = HalfRing
    /\ frame' = [frame EXCEPT !.result = <<frame.molecule>>, !.at = "returned"]
    /\ UNCHANGED <<pc, varsSat, varsMove, gen, clar>>

\* molecule.updateAtomTypes() raises AtomTypeError: return []
OppTypeError ==
    /\ frame.at = "loop"
    /\ frame.bond > RingSize
    /\ frame.numS = HalfRing /\ frame.numD = HalfRing
    /\ frame' = [frame EXCEPT !.typeError = TRUE, !.result = <<>>,
                              !.at = "returned"]
    /\ UNCHANGED <<pc, varsSat, varsMove, gen, clar>>

NextOpp ==
    \/ OppAromatic \/ OppCopy \/ OppNotOneRing \/ OppEnterLoop
    \/ OppInvertBond \/ OppOtherBond \/ OppWrongCounts \/ OppReturn
    \/ OppTypeError

SpecOpp == InitOpp /\ [][NextOpp]_vars

---------------------------------------------------------------------------
(* generateIsomorphicResonanceStructures *)

\* populateResonanceAlgorithms(): of the seven methods the three move
\* families, in this order; the four ring methods return [] for a molecule
\* without rings
AlgorithmsWithoutFeatures == <<"adjacent", "lonePairRadical", "n5dd_n5ts">>

\* the scan of isomers for one candidate: found isomorphic to a member, it
\* goes to isomorphic_isomers, else to isomers
RECURSIVE ScanIsomers(_, _, _)
ScanIsomers(st, newIsomers, k) ==
    IF k > Len(newIsomers) THEN st
    ELSE ScanIsomers(
           IF \E i \in 1..Len(st.isomers) : isIsomorphic(st.isomers[i], newIsomers[k])
           THEN [st EXCEPT !.isomorphic_isomers = Append(@, newIsomers[k])]
           ELSE [st EXCEPT !.isomers = Append(@, newIsomers[k])],
           newIsomers, k + 1)

InitIso ==
    /\ IdleSat
    /\ IdleMove
    /\ IdleGen
    /\ IdleClar
    /\ \E molecule \in InputMolecules :
         frame = [ fn |-> "generateIsomorphicResonanceStructures",
                   mol |-> molecule,
                   isomorphic_isomers |-> <<molecule>>,
                   isomers |-> <<molecule>>,
                   index |-> 0,
                   newIsomers |-> <<>>,
                   at |-> "loop" ]
    /\ pc = "isomorphic"

\* isomer = isomers[index]; every algorithm runs on it
IsoApply ==
    /\ frame.at = "loop"
    /\ frame.index < Len(frame.isomers)
    /\ Len(frame.isomorphic_isomers) < MaxList
    /\ LET r == RunMethods(AlgorithmsWithoutFeatures,
                           [mol |-> frame.isomers[frame.index + 1], isomers |-> <<>>], 1)
       IN frame' = [frame EXCEPT !.newIsomers = r.isomers,
                                 !.isomers[frame.index + 1] = r.mol,
                                 !.at = "scan"]
    /\ UNCHANGED <<pc, varsSat, varsMove, gen, clar>>

\* isomer.updateAtomTypes raised AtomTypeError in one of the appliers
IsoRaise ==
    /\ frame.at = "scan"
    /\ frame.newIsomers # <<>>
    /\ frame' = [frame EXCEPT !.at = "raised"]
    /\ UNCHANGED <<pc, varsSat, varsMove, gen, clar>>

\* the loop over newIsomers, then index += 1
IsoScan ==
    /\ frame.at = "scan"
    /\ LET st == ScanIsomers([isomers |-> frame.isomers,
                              isomorphic_isomers |-> frame.isomorphic_isomers],
                             frame.newIsomers, 1)
       IN frame' = [frame EXCEPT !.isomers = st.isomers,
                                 !.isomorphic_isomers = st.isomorphic_isomers,
                                 !.newIsomers = <<>>,
                                 !.index = @ + 1,
                                 !.at = "loop"]
    /\ UNCHANGED <<pc, varsSat, varsMove, gen, clar>>

\* return isomorphic_isomers
IsoReturn ==
    /\ frame.at = "loop"
    /\ frame.index >= Len(frame.isomers)
    /\ frame' = [frame EXCEPT !.at = "returned"]
    /\ UNCHANGED <<pc, varsSat, varsMove, gen, clar>>

NextIso == IsoApply \/ IsoRaise \/ IsoScan \/ IsoReturn

SpecIso == InitIso /\ [][NextIso]_vars

---------------------------------------------------------------------------
(* generateAromaticResonanceStructures *)

\* the largest number of rings of six of a molecule
MaxSixRings == 2

\* rings = molecule.getAllSimpleCyclesOfSize(6): a chain of fused rings
SixRings == 1..MaxSixRings

\* the bonds of a ring: six, the last one shared with the next ring
BondsOfRing(r) ==
    ((RingSize - 1) * (r - 1) + 1)..((RingSize - 1) * (r - 1) + RingSize)

\* the bonds of the rings of the molecule
SixRingBonds == 1..((RingSize - 1) * MaxSixRings + 1)

\* the two alternating assignments of single and double bonds
KekulePatterns ==
    { [b \in SixRingBonds |-> IF (b + p) % 2 = 0 THEN "D" ELSE "S"] : p \in {0, 1} }

\* the lists of distinct rings, in the order ring perception reports them
RingLists ==
    { s \in {<<>>} \cup UNION {[1..n -> SixRings] : n \in 1..MaxSixRings} :
        \A a, b \in 1..Len(s) : a < b => s[a] < s[b] }

\* a molecule as this function reads it: the orders of its ring bonds,
\* whether its radical sits in a ring, and the aromatic rings that
\* getAromaticRings finds in it
RingMolecules ==
    [ order : KekulePatterns, radicalInRing : BOOLEAN, aromaticBonds : RingLists ]

\* the ring bonds in reverse order: the same ring system read from its
\* other end
MirrorOrder(order) ==
    [b \in SixRingBonds |-> order[(RingSize - 1) * MaxSixRings + 2 - b]]

\* Molecule.isIsomorphic on two forms of the ring system
isIsomorphicRings(m1, m2) ==
    /\ m1.radicalInRing = m2.radicalInRing
    /\ \/ m1.order = m2.order
       \/ m1.order = MirrorOrder(m2.order)

\* mutant: every variant is kept, whatever its number of aromatic rings
KeepMostAromaticAll(kekuleList, k, maxNum, kept) == kekuleList

\* the structures with the most aromatic rings: a variant with more rings
\* than maxNum starts the list again, one with as many is appended
RECURSIVE KeepMostAromatic(_, _, _, _)
KeepMostAromatic(kekuleList, k, maxNum, kept) ==
    IF k > Len(kekuleList) THEN kept
    ELSE LET n == Len(kekuleList[k].aromaticBonds)
         IN IF n > maxNum
            THEN KeepMostAromatic(kekuleList, k + 1, n, <<kekuleList[k]>>)
            ELSE IF n = maxNum
            THEN KeepMostAromatic(kekuleList, k + 1, maxNum, Append(kept, kekuleList[k]))
            ELSE KeepMostAromatic(kekuleList, k + 1, maxNum, kept)

\* the orders of the bonds of one ring
OrdersOfRing(order, ring) == [b \in BondsOfRing(ring) |-> order[b]]

\* bond.order = 1.5 for every bond of the ring
PromoteRing(order, ring) ==
    [b \in SixRingBonds |-> IF b \in BondsOfRing(ring) THEN "B" ELSE order[b]]

\* bond.order = 1.5 for every bond of every ring of the list
RECURSIVE PromoteRings(_, _, _)
PromoteRings(order, rings, k) ==
    IF k > Len(rings) THEN order
    ELSE PromoteRings(PromoteRing(order, rings[k]), rings, k + 1)

\* mutant: the bonds of a ring that failed are made single
UndoRingSingle(order, ring, originalOrder) ==
    [b \in SixRingBonds |-> IF b \in BondsOfRing(ring) THEN "S" ELSE order[b]]

\* bond.order = order for the bonds of the ring and the saved orders
UndoRing(order, ring, originalOrder) ==
    [b \in SixRingBonds |-> IF b \in BondsOfRing(ring) THEN originalOrder[b] ELSE order[b]]

\* the reset after the first failure: ring by ring, from originalBonds
RECURSIVE UndoRings(_, _, _, _)
UndoRings(order, rings, originalBonds, k) ==
    IF k > Len(rings) THEN order
    ELSE UndoRings(UndoRing(order, rings[k], originalBonds[k]), rings, originalBonds, k + 1)

\* aromaticBonds.append(aromaticBonds.pop(i)), i 0-based
MoveToEnd(rings, i) ==
    Append(SubSeq(rings, 1, i) \o SubSeq(rings, i + 2, Len(rings)), rings[i + 1])

\* mutant: the loop goes on while there are rings left, without a bound
RetryGoesOnUnbounded(i, counter, rings) == i < Len(rings)

\* while i < len(aromaticBonds) and counter < 2*len(aromaticBonds)
RetryGoesOn(i, counter, rings) ==
    i < Len(rings) /\ counter < 2 * Len(rings)

\* for mol1 in newMolList: if mol1.isIsomorphic(mol0): break; else: append
AppendAromatic(newMols, m) ==
    IF \E k \in 1..Len(newMols) : isIsomorphicRings(newMols[k], m)
    THEN newMols ELSE Append(newMols, m)

\* the condition of the search for a form with more aromatic rings
SearchesMoreAromatic(f) ==
    /\ f.features.isRadical /\ ~f.features.isArylRadical
    /\ Len(f.molecule.aromaticBonds) < MaxSixRings

\* the frame of a call; attempted records the rings the retry loop has
\* tried for the molecule it is at
InitArom ==
    /\ IdleSat
    /\ IdleMove
    /\ IdleGen
    /\ IdleClar
    /\ \E molecule \in RingMolecules, cyclic, radical, aryl, aromatic \in BOOLEAN :
         /\ aryl => radical
         /\ frame = [ fn |-> "generateAromaticResonanceStructures",
                      features |-> [ isCyclic |-> cyclic, isRadical |-> radical,
                                     isArylRadical |-> aryl ],
                      molecule |-> molecule,
                      isAromatic |-> aromatic,
                      kekuleList |-> <<>>,
                      molList |-> <<>>,
                      next |-> 0,
                      mol0 |-> <<>>,
                      aromaticBonds |-> <<>>,
                      originalBonds |-> <<>>,
                      i |-> 0,
                      counter |-> 0,
                      attempted |-> {},
                      newMolList |-> <<>>,
                      at |-> "start" ]
    /\ pc = "aromatic"

\* if not features['isCyclic']: return []
AromNotCyclic ==
    /\ frame.at = "start"
    /\ ~frame.features.isCyclic
    /\ frame' = [frame EXCEPT !.at = "returned"]
    /\ UNCHANGED <<pc, varsSat, varsMove, gen, clar>>

\* the molecule is aromatic and generateKekuleStructure returns []: the
\* engine has nothing to work on
AromKekuleFails ==
    /\ frame.at = "start"
    /\ frame.features.isCyclic
    /\ SearchesMoreAromatic(frame)
    /\ frame.isAromatic
    /\ frame' = [frame EXCEPT !.kekuleList = <<>>, !.molList = <<>>, !.at = "loop"]
    /\ UNCHANGED <<pc, varsSat, varsMove, gen, clar>>

\* the Kekule form, or the molecule as it is, and its adjacent-shift
\* variants from the engine, each with the aromatic rings found in it; then
\* the structures with the most aromatic rings
AromShift ==
    /\ frame.at = "start"
    /\ frame.features.isCyclic
    /\ SearchesMoreAromatic(frame)
    /\ \E kekuleList \in SeqsUpTo2(RingMolecules) :
         /\ Len(kekuleList) > 0
         /\ ~frame.isAromatic =>
               /\ kekuleList[1].order = frame.molecule.order
               /\ kekuleList[1].radicalInRing = frame.molecule.radicalInRing
         /\ \A a, b \in 1..Len(kekuleList) :
               a # b => ~isIsomorphicRings(kekuleList[a], kekuleList[b])
         /\ frame' = [frame EXCEPT
                        !.kekuleList = kekuleList,
                        !.molList = KeepMostAromatic(kekuleList, 1, 0, <<>>),
                        !.at = "loop"]
    /\ UNCHANGED <<pc, varsSat, varsMove, gen, clar>>

\* else: molList = [(molecule, aromaticBonds)]
AromAsIs ==
    /\ frame.at = "start"
    /\ frame.features.isCyclic
    /\ ~SearchesMoreAromatic(frame)
    /\ frame' = [frame EXCEPT !.molList = <<frame.molecule>>, !.at = "loop"]
    /\ UNCHANGED <<pc, varsSat, varsMove, gen, clar>>

\* for mol0, aromaticBonds in molList: if not aromaticBonds: continue
AromSkip ==
    /\ frame.at = "loop"
    /\ frame.next < Len(frame.molList)
    /\ Len(frame.molList[frame.next + 1].aromaticBonds) = 0
    /\ frame' = [frame EXCEPT !.next = @ + 1]
    /\ UNCHANGED <<pc, varsSat, varsMove, gen, clar>>

\* the original orders are saved ring by ring, then every aromatic ring gets
\* benzene bonds
AromPromote ==
    /\ frame.at = "loop"
    /\ frame.next < Len(frame.molList)
    /\ LET cand == frame.molList[frame.next + 1]
       IN /\ Len(cand.aromaticBonds) > 0
          /\ frame' = [frame EXCEPT
                         !.mol0 = [cand EXCEPT
                                     !.order = PromoteRings(cand.order, cand.aromaticBonds, 1)],
                         !.aromaticBonds = cand.aromaticBonds,
                         !.originalBonds =
                             [k \in 1..Len(cand.aromaticBonds) |->
                                 OrdersOfRing(cand.order, cand.aromaticBonds[k])],
                         !.i = 0,
                         !.counter = 0,
                         !.attempted = {},
                         !.at = "try"]
    /\ UNCHANGED <<pc, varsSat, varsMove, gen, clar>>

\* mol0.updateAtomTypes() returns
AromAllValid ==
    /\ frame.at = "try"
    /\ frame' = [frame EXCEPT !.at = "unique"]
    /\ UNCHANGED <<pc, varsSat, varsMove, gen, clar>>

\* mol0.updateAtomTypes() raises AtomTypeError: the changes are reset, i = 0,
\* counter = 0
AromAllFails ==
    /\ frame.at = "try"
    /\ frame' = [frame EXCEPT
                   !.mol0.order = UndoRings(@, frame.aromaticBonds, frame.originalBonds, 1),
                   !.i = 0,
                   !.counter = 0,
                   !.at = "retry"]
    /\ UNCHANGED <<pc, varsSat, varsMove, gen, clar>>

\* one pass of the loop: the ring at position i gets benzene bonds and
\* updateAtomTypes returns: i += 1
AromRingValid ==
    /\ frame.at = "retry"
    /\ RetryGoesOn(frame.i, frame.counter, frame.aromaticBonds)
    /\ LET ring == frame.aromaticBonds[frame.i + 1]
       IN frame' = [frame EXCEPT
                      !.counter = @ + 1,
                      !.mol0.order = PromoteRing(@, ring),
                      !.attempted = @ \cup {ring},
                      !.i = @ + 1]
    /\ UNCHANGED <<pc, varsSat, varsMove, gen, clar>>

\* one pass of the loop: the ring at position i gets benzene bonds and
\* updateAtomTypes raises: the ring gets its orders back and moves to the end
AromRingFails ==
    /\ frame.at = "retry"
    /\ RetryGoesOn(frame.i, frame.counter, frame.aromaticBonds)
    /\ LET ring == frame.aromaticBonds[frame.i + 1]
           originalOrder == OrdersOfRing(frame.mol0.order, ring)
       IN frame' = [frame EXCEPT
                      !.counter = @ + 1,
                      !.mol0.order = UndoRing(PromoteRing(@, ring), ring, originalOrder),
                      !.attempted = @ \cup {ring},
                      !.aromaticBonds = MoveToEnd(@, frame.i)]
    /\ UNCHANGED <<pc, varsSat, varsMove, gen, clar>>

\* the loop is left and i == 0: on to the next molecule of the list
AromNoneValid ==
    /\ frame.at = "retry"
    /\ ~RetryGoesOn(frame.i, frame.counter, frame.aromaticBonds)
    /\ frame.i = 0
    /\ frame' = [frame EXCEPT !.next = @ + 1, !.at = "loop"]
    /\ UNCHANGED <<pc, varsSat, varsMove, gen, clar>>

\* the loop is left with a ring made aromatic
AromSomeValid ==
    /\ frame.at = "retry"
    /\ ~RetryGoesOn(frame.i, frame.counter, frame.aromaticBonds)
    /\ frame.i > 0
    /\ frame' = [frame EXCEPT !.at = "unique"]
    /\ UNCHANGED <<pc, varsSat, varsMove, gen, clar>>

\* mol0 is appended unless a structure of newMolList is isomorphic to it
AromUnique ==
    /\ frame.at = "unique"
    /\ frame' = [frame EXCEPT
                   !.newMolList = AppendAromatic(@, frame.mol0),
                   !.next = @ + 1,
                   !.at = "loop"]
    /\ UNCHANGED <<pc, varsSat, varsMove, gen, clar>>

\* return newMolList
AromReturn ==
    /\ frame.at = "loop"
    /\ frame.next = Len(frame.molList)
    /\ frame' = [frame EXCEPT !.at = "returned"]
    /\ UNCHANGED <<pc, varsSat, varsMove, gen, clar>>

NextArom ==
    \/ AromNotCyclic \/ AromKekuleFails \/ AromShift \/ AromAsIs
    \/ AromSkip \/ AromPromote \/ AromAllValid \/ AromAllFails
    \/ AromRingValid \/ AromRingFails \/ AromNoneValid \/ AromSomeValid
    \/ AromUnique \/ AromReturn

SpecArom == InitArom /\ [][NextArom]_vars

---------------------------------------------------------------------------
(* generateClarStructures: the structures built from the solutions *)

\* the aromatic rings of the molecule (getAromaticRings, collaborator): two
\* rings of six atoms that share the atoms 5 and 6
SextetRings == { {1, 2, 3, 4, 5, 6}, {5, 6, 7, 8, 9, 10} }

\* atoms: the atoms that are in the rings
RingAtoms == UNION SextetRings

\* bonds: the bonds of the ring atoms, those to hydrogen left out; the atoms
\* 11 and 12 are in no ring
AtomBonds ==
    { {1, 2}, {2, 3}, {3, 4}, {4, 5}, {5, 6}, {1, 6},
      {5, 7}, {7, 8}, {8, 9}, {9, 10}, {6, 10},
      {1, 11}, {4, 12} }

\* if bond.atom1 not in atoms or bond.atom2 not in atoms
IsExocyclic(bond) == ~(bond \subseteq RingAtoms)

\* exo: 1 for an exocyclic bond that is double, 0 for any other exocyclic
\* bond
ExoValue(molecule, bond) == IF molecule[bond] = "D" THEN 1 ELSE 0

\* mutant: the row of an atom is an inequality
SatisfiesAtomAtMost(y, x, a) ==
    Cardinality({r \in y : a \in r}) + Cardinality({b \in x : a \in b}) <= 1

\* the row of an atom in the constraint matrix, with right-hand side 1 and
\* type '=': the rings and the bonds the atom is in
SatisfiesAtom(y, x, a) ==
    Cardinality({r \in y : a \in r}) + Cardinality({b \in x : a \in b}) = 1

\* set_bounds(lp, i + 1, exo, exo) for the exocyclic bonds
SatisfiesBounds(molecule, x) ==
    \A b \in AtomBonds :
        IsExocyclic(b) => ((b \in x) <=> ExoValue(molecule, b) = 1)

\* the solutions _clarOptimization can hand back for a molecule: binary,
\* within the rows of the atoms and the bounds, with a sextet (objVal # 0);
\* y the rings with value 1, x the bonds with value 1
ClarSolutions(molecule) ==
    { s \in [y : SUBSET SextetRings, x : SUBSET AtomBonds] :
        /\ s.y # {}
        /\ SatisfiesBounds(molecule, s.x)
        /\ \A a \in RingAtoms : SatisfiesAtom(s.y, s.x, a) }

\* the orders of the ring bonds of an input molecule: its aromatic form, or
\* a Kekule form
RingBondForms ==
    { [b \in {c \in AtomBonds : ~IsExocyclic(c)} |-> "B"],
      [b \in {c \in AtomBonds : ~IsExocyclic(c)} |->
          IF b \in { {1, 2}, {3, 4}, {5, 6}, {7, 8}, {9, 10} } THEN "D" ELSE "S"] }

\* the input molecules: a form of the ring bonds and any orders of the two
\* exocyclic bonds
ClarMolecules ==
    { [b \in AtomBonds |-> IF IsExocyclic(b) THEN e[b] ELSE ring[b]] :
        ring \in RingBondForms,
        e \in [{c \in AtomBonds : IsExocyclic(c)} -> Orders] }

\* for index, bond in enumerate(bonds): order 1 for x = 0, order 2 for x = 1
ApplyBonds(order, x) ==
    [b \in AtomBonds |-> IF b \in x THEN "D" ELSE "S"]

\* _clarTransformation(newmol, ring): the bonds between two atoms of the
\* ring become benzene bonds
clarTransformation(order, ring) ==
    [b \in AtomBonds |-> IF b \subseteq ring THEN "B" ELSE order[b]]

\* the rings of y, in the order of aromaticRings
RECURSIVE ApplySextets(_, _)
ApplySextets(order, y) ==
    IF y = {} THEN order
    ELSE LET ring == CHOOSE r \in y : TRUE
         IN ApplySextets(clarTransformation(order, ring), y \ {ring})

\* the frame of a call: output is what _clarOptimization returns, or it
\* raises ILPSolutionError
InitBuild ==
    /\ IdleSat
    /\ IdleMove
    /\ IdleGen
    /\ IdleClar
    /\ \E molecule \in ClarMolecules, cyclic \in BOOLEAN :
         frame = [ fn |-> "generateClarStructures",
                   mol |-> molecule,
                   isCyclic |-> cyclic,
                   output |-> <<>>,
                   next |-> 0,
                   newmol |-> <<>>,
                   molList |-> <<>>,
                   at |-> "start" ]
    /\ pc = "build"

\* if not mol.isCyclic(): return []
BuildNotCyclic ==
    /\ frame.at = "start"
    /\ ~frame.isCyclic
    /\ frame' = [frame EXCEPT !.at = "returned"]
    /\ UNCHANGED <<pc, varsSat, varsMove, gen, clar>>

\* except ILPSolutionError: return []
BuildRaised ==
    /\ frame.at = "start"
    /\ frame.isCyclic
    /\ frame' = [frame EXCEPT !.at = "returned"]
    /\ UNCHANGED <<pc, varsSat, varsMove, gen, clar>>

\* output = _clarOptimization(mol): solutions with different sextets, each
\* with its own copy of the molecule
BuildOutput ==
    /\ frame.at = "start"
    /\ frame.isCyclic
    /\ \E output \in SeqsUpTo2(ClarSolutions(frame.mol)) :
         /\ \A a, b \in 1..Len(output) : a # b => output[a].y # output[b].y
         /\ frame' = [frame EXCEPT !.output = output, !.molList = <<>>, !.at = "loop"]
    /\ UNCHANGED <<pc, varsSat, varsMove, gen, clar>>

\* the double bond locations first
BuildBonds ==
    /\ frame.at = "loop"
    /\ frame.next < Len(frame.output)
    /\ frame' = [frame EXCEPT
                   !.newmol = ApplyBonds(frame.mol, frame.output[frame.next + 1].x),
                   !.at = "sextets"]
    /\ UNCHANGED <<pc, varsSat, varsMove, gen, clar>>

\* then the aromatic sextets
BuildSextets ==
    /\ frame.at = "sextets"
    /\ frame' = [frame EXCEPT
                   !.newmol = ApplySextets(@, frame.output[frame.next + 1].y),
                   !.at = "types"]
    /\ UNCHANGED <<pc, varsSat, varsMove, gen, clar>>

\* newmol.updateAtomTypes() returns: molList.append(newmol)
BuildAppend ==
    /\ frame.at = "types"
    /\ frame' = [frame EXCEPT !.molList = Append(@, frame.newmol),
                              !.next = @ + 1,
                              !.at = "loop"]
    /\ UNCHANGED <<pc, varsSat, varsMove, gen, clar>>

\* newmol.updateAtomTypes() raises AtomTypeError: pass
BuildPass ==
    /\ frame.at = "types"
    /\ frame' = [frame EXCEPT !.next = @ + 1, !.at = "loop"]
    /\ UNCHANGED <<pc, varsSat, varsMove, gen, clar>>

\* return molList
BuildReturn ==
    /\ frame.at = "loop"
    /\ frame.next = Len(frame.output)
    /\ frame' = [frame EXCEPT !.at = "returned"]
    /\ UNCHANGED <<pc, varsSat, varsMove, gen, clar>>

NextBuild ==
    \/ BuildNotCyclic \/ BuildRaised \/ BuildOutput \/ BuildBonds
    \/ BuildSextets \/ BuildAppend \/ BuildPass \/ BuildReturn

SpecBuild == InitBuild /\ [][NextBuild]_vars

---------------------------------------------------------------------------
(* Properties of the worklist engine *)

\* equivalence under the active mode, stated on the graph relations
SameUnderMode(a, b) ==
    (keepIsomorphic /\ isIdentical(a, b)) \/ (~keepIsomorphic /\ isIsomorphic(a, b))

PairwiseDistinct(list) ==
    \A i, j \in 1..Len(list) : i < j => ~SameUnderMode(list[i], list[j])

Represented(list, s) == \E i \in 1..Len(list) : SameUnderMode(list[i], s)

\* some candidate of a member was discarded as equivalent to a member
SomeCandidateDiscarded ==
    \E i \in 1..Len(molList) :
        \E c \in SeqToSet(NewMolList(methodList, molList[i])) :
            c \notin SeqToSet(molList)

\* C1 as stated: whatever the seed list, the returned list holds no two
\* members that are equivalent under the active mode.
C1_NoDuplicatesAnySeeds ==
    pc = "done" => PairwiseDistinct(molList)

\* C1 amended: when the seeds are pairwise non-equivalent under the active
\* mode, the returned list holds no two equivalent members.
C1_NoDuplicatesDistinctSeeds ==
    (pc = "done" /\ PairwiseDistinct(seedList)) => PairwiseDistinct(molList)

C1_Witness ==
    /\ pc = "done"
    /\ PairwiseDistinct(seedList)
    /\ Len(molList) > Len(seedList)
    /\ SomeCandidateDiscarded

\* C2: at return every candidate of every family applied to every member is
\* equivalent, under the active mode, to a member of the returned list.
C2_Closure ==
    pc = "done" =>
        \A i \in 1..Len(molList) :
            \A k \in 1..Len(methodList) :
                \A c \in SeqToSet(RunApplier(methodList[k], molList[i]).isomers) :
                    Represented(molList, c)

C2_Witness ==
    /\ pc = "done"
    /\ Len(molList) > Len(seedList)
    /\ Len(methodList) > 1
    /\ SomeCandidateDiscarded

\* a structure reached only through a candidate that the engine discarded
ReachedThroughDiscarded ==
    \E c \in ReachableFrom(SeqToSet(seedList), methodList) \ SeqToSet(molList) :
        \E d \in SeqToSet(NewMolList(methodList, c)) :
            /\ d \notin SeqToSet(molList)
            /\ \A i \in 1..Len(molList) :
                  d \notin SeqToSet(NewMolList(methodList, molList[i]))

\* C3: the returned list starts with the seeds and represents, up to the
\* active equivalence, every structure reachable from a seed by one-step
\* moves of the supplied families.
C3_ReachableRepresented ==
    pc = "done" =>
        /\ SubSeq(molList, 1, Len(seedList)) = seedList
        /\ \A r \in ReachableFrom(SeqToSet(seedList), methodList) :
              Represented(molList, r)

C3_Witness ==
    /\ pc = "done"
    /\ Len(molList) > Len(seedList)
    /\ ReachedThroughDiscarded

\* what is left to do at position p with index i under the list bound K: the
\* passes not yet made, and the half of a pass
Variant(p, i, K) ==
    IF p \in {"done", "raised"} THEN 0
    ELSE 2 * (K - i) + (IF p = "run" THEN 2 ELSE 1)

\* the index stays within the list and the list within the bound K
IndexWithinBound(i, list, K) == i <= Len(list) /\ Len(list) <= K

\* a pass that the loop test admits can be made
PassCanBeMade(p, i, list) == (p = "run" /\ i < Len(list)) => Len(list) < MaxList

\* C4: the engine terminates: the list stays within the finite set of
\* reachable structures, because a candidate is appended only when no member
\* is equivalent to it, every step brings the index closer to that bound, and
\* no pass is ever held up; so the index reaches the length of the list.
C4_Terminates ==
    [][ /\ IndexWithinBound(index, molList, listBound)
        /\ IndexWithinBound(index', molList', listBound)
        /\ PassCanBeMade(pc, index, molList)
        /\ PassCanBeMade(pc', index', molList')
        /\ Variant(pc', index', listBound) < Variant(pc, index, listBound) ]_vars

C4_Witness ==
    /\ pc = "done"
    /\ index = Len(molList)
    /\ Len(molList) > Len(seedList) + 1

---------------------------------------------------------------------------
(* Properties of the move appliers *)

\* C7: outside the window between adjust and restore the molecule object is
\* identical to the molecule handed over, in every bond order, radical count,
\* lone-pair count and charge: after each path and when the applier returns.
C7_RestoreExact ==
    (pc \in {"vertex", "path", "restored", "done", "raised"}) => mol = mol0

C7_Witness ==
    /\ pc = "restored"
    /\ isomer # mol0
    /\ mol = mol0
    /\ isomers # <<>>

\* C8 as stated: the appliers never raise; a candidate whose revalidation
\* fails is kept in the returned sequence.
C8_NeverRaises == pc # "raised"

\* the electron count of atom a of m, with and without the formal charge
ElectronCount(m, a) == TotalBondOrder(m, a) + 2 * m.lp[a] + m.rad[a]

ValenceWithoutCharge(m) ==
    \A a \in Atoms : ElectronCount(m, a) = ValenceElectrons(m.elem[a])

ValenceWithCharge(m) ==
    \A a \in Atoms : ElectronCount(m, a) + m.chg[a] = ValenceElectrons(m.elem[a])

\* C9 as stated: from seeds in which bonds + 2*lonePairs + radicalCount is
\* the valence at every atom, every emitted structure satisfies the same.
C9_ValenceWithoutCharge ==
    (\A i \in 1..Len(seedList) : ValenceWithoutCharge(seedList[i]))
        => \A i \in 1..Len(molList) : ValenceWithoutCharge(molList[i])

\* C9 amended: from seeds in which bonds + 2*lonePairs + radicalCount +
\* formalCharge is the valence-electron count at every atom, every structure
\* in the list and every candidate satisfies the same.
C9_ValenceWithCharge ==
    (\A i \in 1..Len(seedList) : ValenceWithCharge(seedList[i]))
        => /\ \A i \in 1..Len(molList) : ValenceWithCharge(molList[i])
           /\ \A i \in 1..Len(newMolList) : ValenceWithCharge(newMolList[i])

C9_Witness ==
    /\ pc = "done"
    /\ Len(methodList) = 3
    /\ \A i \in 1..Len(seedList) : ValenceWithCharge(seedList[i])
    /\ \E i \in 1..Len(molList) : ~ValenceWithoutCharge(molList[i])
    /\ \E i \in 1..Len(molList) : molList[i].ord # seedList[1].ord

---------------------------------------------------------------------------
(* Properties of generateResonanceStructures *)

\* no two members of list at different positions are equivalent under keep
DistinctUnder(keep, list) ==
    \A i, j \in 1..Len(list) : i # j => ~Equivalent(keep, list[i], list[j])

\* C5: the list generateResonanceStructures returns has no two members at
\* different positions that are equivalent under the mode it was called
\* with; the same holds of the list it hands to the final saturation.
C5_ReturnedListDistinct ==
    /\ gen.at = "returned" => DistinctUnder(gen.keepIsomorphic, gen.molList)
    /\ gen.at = "populate" => DistinctUnder(gen.keepIsomorphic, gen.molList)

C5_Witness ==
    /\ gen.at = "returned"
    /\ gen.deleted = 1
    /\ Len(gen.newMolList) >= 1
    /\ Len(gen.molList) > 1 + Len(gen.newMolList)

\* C6: the first element of the list is the input molecule at every point
\* from the call to the return, and the input is the first element of the
\* returned list.
C6_InputStaysFirst ==
    /\ Len(gen.molList) >= 1
    /\ gen.molList[1] = gen.mol
    /\ gen.at = "214" => (Len(molList) >= 1 /\ molList[1] = gen.mol)

C6_Witness ==
    /\ gen.at = "returned"
    /\ gen.deleted = 1
    /\ gen.molList[1] = gen.mol
    /\ Len(gen.molList) >= 3
    /\ gen.features.isAromatic

---------------------------------------------------------------------------
(* Properties of the Clar optimisation *)

\* every solution of list is feasible in the base model and has as many
\* sextets as the first solution found, which is the most the base model
\* allows
AllOptimal(list) ==
    \A k \in 1..Len(list) :
        /\ clar.maxNum # <<>>
        /\ Cardinality(list[k].y) = clar.maxNum[1]
        /\ clar.maxNum[1] = MaxSextets(clar.feasible)
        /\ [y |-> list[k].y, x |-> list[k].x] \in clar.feasible

\* C10: every solution _clarOptimization returns, at every level of the
\* recursion, and every structure generateClarStructures returns has the
\* sextet count of the first solution found, which is the maximum over the
\* feasible assignments of the base model.
C10_ClarOptimal ==
    /\ clar.at \in {"unwind", "output", "returned"} => AllOptimal(clar.innerSolutions)
    /\ clar.at = "returned" => AllOptimal(clar.molList)

C10_Witness ==
    /\ clar.at = "returned"
    /\ Len(clar.molList) >= 2
    /\ \E p \in clar.feasible :
          /\ Cardinality(p.y) > 0
          /\ Cardinality(p.y) < clar.maxNum[1]
          /\ \A k \in 1..Len(clar.constraints) :
                SatisfiesConstraint(p.y, clar.constraints[k])

\* the assignments of the base model with the largest number of sextets
OptimalPoints(feasible) ==
    {p \in feasible : Cardinality(p.y) = MaxSextets(feasible)}

\* the number of positions of list that hold the assignment p
Occurrences(list, p) ==
    Cardinality({k \in 1..Len(list) : list[k].y = p.y /\ list[k].x = p.x})

ClarRank(at) ==
    CASE at = "enter" -> 7
      [] at = "check" -> 6
      [] at = "unwind" -> 5
      [] at = "raised" -> 3
      [] at = "output" -> 2
      [] at = "returned" -> 0

ClarVariant(c) ==
    10 * Cardinality(FeasibleUnder(c.feasible, c.constraints))
    + 2 * Len(c.waiting) + ClarRank(c.at)

\* C12: the recursion of _clarOptimization terminates: every step brings the
\* call nearer to its return, because the constraint a level appends excludes
\* the assignment that level found, so each further level has fewer
\* assignments left, and the unwinding has one waiting call fewer per step.
C12_ClarTerminates ==
    [][ClarVariant(clar') < ClarVariant(clar)]_vars

C12_Witness ==
    /\ clar.at = "returned"
    /\ Len(clar.constraints) >= 3
    /\ Len(clar.molList) >= 1

\* the solutions of list are the solutions the levels recorded, the
\* innermost first: one per appended constraint
ReturnsEveryRecorded(list, constraints) ==
    /\ Len(list) = Len(constraints)
    /\ \A k \in 1..Len(list) : list[k].y = constraints[Len(constraints) + 1 - k]

\* C13: an ILPSolutionError leaves _clarOptimization only from the outermost
\* call, with nothing recorded, and generateClarStructures then returns the
\* empty list; a failure at a recursive level ends that level only, and the
\* outermost call returns the solution of every level above it.
C13_FailureScoping ==
    /\ clar.at = "raised" =>
          /\ clar.waiting = <<>>
          /\ clar.constraints = <<>>
    /\ (clar.at = "returned" /\ clar.constraints = <<>>) => clar.molList = <<>>
    /\ clar.at \in {"output", "returned"} =>
          ReturnsEveryRecorded(clar.innerSolutions, clar.constraints)

C13_Witness ==
    /\ clar.at = "output"
    /\ Len(clar.innerSolutions) >= 2
    /\ clar.solution.status = 0
    /\ ~clar.solution.integral
    /\ clar.solution.objVal = clar.maxNum[1]

---------------------------------------------------------------------------
(* Properties of generateOppositeKekuleStructure *)

\* one aromatic ring, of three single and three double bonds
ThreeAndThree(f) ==
    /\ f.numRings = 1
    /\ CountOrder(f.mol, "S") = HalfRing
    /\ CountOrder(f.mol, "D") = HalfRing

\* the ring with single and double exchanged
Inverted(ring) == [b \in RingBonds |-> IF ring[b] = "S" THEN "D" ELSE "S"]

\* C14 as stated: on one aromatic ring of three single and three double
\* bonds exactly one structure is returned, the ring inverted; otherwise the
\* empty list is returned.
C14_OppositeKekule ==
    frame.at = "returned" =>
        IF ThreeAndThree(frame)
        THEN frame.result = <<Inverted(frame.mol)>>
        ELSE frame.result = <<>>

\* C14 amended: on one aromatic ring of three single and three double bonds
\* the inverted ring is returned as the only structure, unless updating its
\* atom types raises AtomTypeError, and then the empty list is returned;
\* otherwise the empty list is returned; the input keeps its bond orders,
\* the copy alone is written.
C14_OppositeKekuleUnlessTypeError ==
    /\ frame.molecule # <<>> =>
          \A b \in RingBonds : b >= frame.bond => frame.molecule[b] = frame.mol[b]
    /\ frame.at = "returned" =>
          IF ThreeAndThree(frame) /\ ~frame.typeError
          THEN frame.result = <<Inverted(frame.mol)>>
          ELSE frame.result = <<>>

C14_Witness ==
    /\ frame.at = "returned"
    /\ ThreeAndThree(frame)
    /\ Len(frame.result) = 1
    /\ frame.result[1] # frame.mol

---------------------------------------------------------------------------
(* Properties of single moves *)

\* the adjacent-shift paths of m, over all its atoms
RECURSIVE AdjacentPaths(_, _)
AdjacentPaths(m, v) ==
    IF v > NumAtoms THEN <<>>
    ELSE findAllDelocalizationPaths(m, v) \o AdjacentPaths(m, v + 1)

\* m with the radical and the multiple bond of path p at the other end
RadicalAtOtherEnd(m, p) ==
    [m EXCEPT !.rad[p[1]] = @ - 1, !.rad[p[3]] = @ + 1,
              !.ord[{p[1], p[2]}] = @ + 1, !.ord[{p[2], p[3]}] = @ - 1]

\* the engine was started on one seed with one radical centre and one
\* eligible adjacent-shift path, the shifted form not isomorphic to the seed,
\* with the adjacent family alone, in isomorphic mode
SeedWithOneShift ==
    /\ Len(seedList) = 1
    /\ methodList = <<"adjacent">>
    /\ ~keepIsomorphic
    /\ Cardinality({a \in Atoms : seedList[1].rad[a] > 0}) = 1
    /\ Len(AdjacentPaths(seedList[1], 1)) = 1
    /\ ~isIsomorphic(seedList[1],
                     RadicalAtOtherEnd(seedList[1], AdjacentPaths(seedList[1], 1)[1]))

\* what the claim says of the returned list
TwoCycle ==
    /\ Len(molList) = 2
    /\ molList[1] = seedList[1]
    /\ molList[2] = RadicalAtOtherEnd(seedList[1], AdjacentPaths(seedList[1], 1)[1])
    /\ \E k \in 1..Len(generateAdjacentResonanceStructures(molList[2])) :
          isIdentical(generateAdjacentResonanceStructures(molList[2])[k], seedList[1])

\* the unpaired electrons of m
RadicalElectrons(m) == SumOver(Atoms, m.rad)

---------------------------------------------------------------------------
(* Properties of generateIsomorphicResonanceStructures *)

\* C16 as stated: every structure of the list returned by
\* generateIsomorphicResonanceStructures is isomorphic to the input molecule.
C16_AllIsomorphicToInput ==
    frame.at = "returned" =>
        \A k \in 1..Len(frame.isomorphic_isomers) :
            isIsomorphic(frame.isomorphic_isomers[k], frame.mol)

---------------------------------------------------------------------------
(* Further properties of the worklist engine *)

\* list a is a prefix of list b
IsPrefix(a, b) ==
    /\ Len(a) <= Len(b)
    /\ \A i \in 1..Len(a) : b[i] = a[i]

\* C17: _generateResonanceStructures is append-only: in every step the list
\* before the step is a prefix of the list after it, so the seeds and every
\* member keep their positions, and the worklist index never decreases.
C17_AppendOnly ==
    [][ /\ IsPrefix(molList, molList')
        /\ IsPrefix(seedList, molList')
        /\ index' >= index ]_vars

C17_Witness ==
    /\ pc = "done"
    /\ Len(seedList) = 2
    /\ Len(molList) >= Len(seedList) + 2
    /\ index = Len(molList)

---------------------------------------------------------------------------
(* Further properties of the move appliers *)

\* the charges of the three atoms of path p recomputed
Recharged(m, p) == updateCharge(updateCharge(updateCharge(m, p[1]), p[2]), p[3])

\* direction A, as written out: bond12 -1, bond13 +1, atom2.lonePairs +1,
\* atom3.lonePairs -1
DirectionA(m, p) ==
    [m EXCEPT !.ord[{p[1], p[2]}] = @ - 1, !.ord[{p[1], p[3]}] = @ + 1,
              !.lp[p[2]] = @ + 1, !.lp[p[3]] = @ - 1]

\* its reverse: bond12 +1, bond13 -1, atom2.lonePairs -1, atom3.lonePairs +1
ReverseOfDirectionA(m, p) ==
    [m EXCEPT !.ord[{p[1], p[2]}] = @ + 1, !.ord[{p[1], p[3]}] = @ - 1,
              !.lp[p[2]] = @ - 1, !.lp[p[3]] = @ + 1]

\* the hypervalent-nitrogen applier has adjusted the molecule along a path
\* with the direction flag d
N5AdjustedAlong(d) ==
    /\ pc = "adjusted"
    /\ family = "n5dd_n5ts"
    /\ Head(paths)[4] = d

\* C18 as stated: a path with direction flag 2 is applied as the reverse of
\* direction A, with the charges of the three atoms recomputed.
C18_DirectionBReverses ==
    N5AdjustedAlong(2) => mol = Recharged(ReverseOfDirectionA(mol0, Head(paths)), Head(paths))

\* C18 amended: a path with direction flag 2 is applied with the statements
\* of direction A (bond12 -1, bond13 +1, atom2.lonePairs +1,
\* atom3.lonePairs -1), with the charges of the three atoms recomputed; so is
\* a path with direction flag 1.
C18_DirectionBAsDirectionA ==
    (N5AdjustedAlong(1) \/ N5AdjustedAlong(2))
        => mol = Recharged(DirectionA(mol0, Head(paths)), Head(paths))

C18_Witness ==
    /\ N5AdjustedAlong(2)
    /\ mol # mol0
    /\ mol0.ord[{Head(paths)[1], Head(paths)[2]}] = 3

---------------------------------------------------------------------------
(* Further properties of generateResonanceStructures *)

\* the comparison of the candidates against the original has been made
ComparedAgainstOriginal == pc = "gen" /\ gen.at = "populate"

\* C19: after the comparison of the reconciled candidates against the
\* original, at most one candidate has been removed and no remaining
\* candidate is equivalent to the original under the active mode, whichever
\* branch of the aromatic handling was taken.
C19_OriginalRemovedOnce ==
    ComparedAgainstOriginal =>
        /\ gen.deleted <= 1
        /\ \A k \in 1..Len(gen.newMolList) :
              ~Equivalent(gen.keepIsomorphic, gen.mol, gen.newMolList[k])

\* a candidate was removed and others remain, one of them isomorphic to the
\* original in the mode that keeps isomorphic structures
C19_Witness ==
    /\ ComparedAgainstOriginal
    /\ gen.deleted = 1
    /\ gen.keepIsomorphic
    /\ \E k \in 1..Len(gen.newMolList) : isIsomorphic(gen.mol, gen.newMolList[k])

\* the radical monocyclic branch reconciles its list: the Kekule structures
\* are at the 0-based positions i..j-1 of the list, the adjacent-shift
\* variants behind them
ReconcilesMonocyclic == pc = "done" /\ gen.at = "185" /\ gen'.at = "check"

\* C20 as stated: for a radical monocyclic aromatic input the reconciled list
\* keeps all Kekule structures and all adjacent-shift variants generated from
\* them; none of the generated Kekule structures is dropped.
C20_KeepsKekuleAndAdjacent ==
    [][ReconcilesMonocyclic =>
          \A k \in (gen.i + 1)..Len(molList) :
              \E n \in 1..Len(gen'.newMolList) : gen'.newMolList[n] = molList[k]]_vars

\* a stable monocyclic aromatic input whose aromatic form was reconciled, at
\* the special handling of aromatic species
StableMonocyclicReconciled ==
    /\ pc = "gen"
    /\ gen.at = "special"
    /\ ~gen.features.isRadical
    /\ gen.features.isAromatic
    /\ ~gen.features.isPolycyclicAromatic
    /\ Len(gen.newMolList) > 0

\* C21 as stated: for a stable monocyclic aromatic input the special handling
\* goes straight to Kekule generation: the engine is called with the
\* Kekulizer-based move on the reconciled aromatic form.
C21_StableMonocyclicKekule ==
    [][StableMonocyclicReconciled =>
          /\ pc' = "run"
          /\ methodList' = <<"kekule">>
          /\ molList' = gen.newMolList]_vars

---------------------------------------------------------------------------
(* Properties of generateAromaticResonanceStructures *)

\* the largest number of aromatic rings among the structures of a list
MostAromaticRings(list) ==
    IF Len(list) = 0 THEN 0
    ELSE CHOOSE n \in 0..MaxSixRings :
           /\ \E k \in 1..Len(list) : Len(list[k].aromaticBonds) = n
           /\ \A k \in 1..Len(list) : Len(list[k].aromaticBonds) <= n

\* the structures of a list that have n aromatic rings, in their order
WithAromaticRings(list, n) ==
    LET Has(m) == Len(m.aromaticBonds) = n
    IN SelectSeq(list, Has)

\* the variants of a non-aryl radical with fewer aromatic rings than rings of
\* six have been generated and selected
VariantsSelected ==
    /\ frame.at # "start"
    /\ frame.features.isCyclic
    /\ SearchesMoreAromatic(frame)

\* C22: for a non-aryl radical with fewer aromatic rings than rings of six,
\* the candidates carried into bond promotion are exactly the adjacent-shift
\* variants whose number of aromatic rings is the largest over all variants
\* (ties all kept, none with fewer), and the returned list is pairwise
\* non-isomorphic.
C22_MostAromaticCarried ==
    VariantsSelected =>
        /\ frame.molList =
              WithAromaticRings(frame.kekuleList, MostAromaticRings(frame.kekuleList))
        /\ \A a, b \in 1..Len(frame.newMolList) :
              a # b => ~isIsomorphicRings(frame.newMolList[a], frame.newMolList[b])

\* two variants with different numbers of aromatic rings, one carried on and
\* returned in its aromatic form
C22_Witness ==
    /\ VariantsSelected
    /\ frame.at = "returned"
    /\ Len(frame.kekuleList) = 2
    /\ Len(frame.kekuleList[1].aromaticBonds) < Len(frame.kekuleList[2].aromaticBonds)
    /\ frame.molList = <<frame.kekuleList[2]>>
    /\ Len(frame.newMolList) = 1

\* the retry loop of a frame has been left
RetryLeft(f) ==
    f.at = "retry" /\ ~(f.i < Len(f.aromaticBonds) /\ f.counter < 2 * Len(f.aromaticBonds))

\* the rings of a list
RingsOf(rings) == {rings[k] : k \in 1..Len(rings)}

\* C23: the ring-by-ring retry loop makes at most 2*n promotion attempts for
\* n aromatic rings, whatever the validations answer: the counter never
\* exceeds 2*n and every pass raises it; every ring has been attempted when
\* the loop is left; and when no ring succeeded the molecule is dropped, the
\* result list unchanged.
C23_RetryBounded ==
    /\ [](frame.at = "retry" =>
            /\ frame.counter <= 2 * Len(frame.aromaticBonds)
            /\ RetryLeft(frame) => frame.attempted = RingsOf(frame.aromaticBonds))
    /\ [][(frame.at = "retry" /\ frame'.at = "retry")
             => frame'.counter = frame.counter + 1]_vars
    /\ [][(RetryLeft(frame) /\ frame.i = 0)
             => /\ frame'.at = "loop"
                /\ frame'.next = frame.next + 1
                /\ frame'.newMolList = frame.newMolList]_vars

\* the bound is reached with no ring made aromatic
C23_Witness ==
    /\ RetryLeft(frame)
    /\ Len(frame.aromaticBonds) = MaxSixRings
    /\ frame.counter = 2 * MaxSixRings
    /\ frame.i = 0

\* the rings at the positions below the success index
Successful(f) == {f.aromaticBonds[k] : k \in 1..f.i}

\* the order a bond of an aromatic ring had when the orders were saved
OriginalOrderOf(f, b) ==
    LET k == CHOOSE j \in 1..Len(f.originalBonds) : b \in DOMAIN f.originalBonds[j]
    IN f.originalBonds[k][b]

\* the bonds of the successful rings are benzene bonds, the other bonds of
\* the aromatic rings have their original orders
RingsAsValidated(f) ==
    /\ \A r \in Successful(f) : \A b \in BondsOfRing(r) : f.mol0.order[b] = "B"
    /\ \A r \in RingsOf(f.aromaticBonds) \ Successful(f) :
          \A b \in BondsOfRing(r) :
             (\A s \in Successful(f) : b \notin BondsOfRing(s))
                => f.mol0.order[b] = OriginalOrderOf(f, b)

\* C24: in the retry loop, and at its exit, the rings below the success index
\* are exactly the rings whose promotion validated and all their bonds have
\* order 1.5, while every bond of a ring that did not succeed and that is
\* not shared with a successful ring has its original order; an attempt that
\* fails leaves the bond orders as they were at the last successful
\* revalidation, and these are the orders of the emitted structure.
C24_RetryFrame ==
    /\ [](frame.at = "retry" => RingsAsValidated(frame))
    /\ [][(frame.at = "retry" /\ frame'.at = "retry")
             => LET ring == frame.aromaticBonds[frame.i + 1]
                IN IF frame'.i = frame.i + 1
                   THEN /\ Successful(frame') = Successful(frame) \cup {ring}
                        /\ frame'.mol0.order = PromoteRing(frame.mol0.order, ring)
                   ELSE /\ frame'.i = frame.i
                        /\ Successful(frame') = Successful(frame)
                        /\ ring \notin Successful(frame')
                        /\ frame'.mol0.order = frame.mol0.order]_vars
    /\ [][(frame.at = "retry" /\ frame'.at = "unique")
             => frame'.mol0 = frame.mol0]_vars

\* the loop is left with one ring made aromatic and one that failed twice,
\* the bond they share a benzene bond
C24_Witness ==
    /\ RetryLeft(frame)
    /\ frame.i >= 1
    /\ frame.i < Len(frame.aromaticBonds)
    /\ \E r \in RingsOf(frame.aromaticBonds) \ Successful(frame) :
          \E b \in BondsOfRing(r) : frame.mol0.order[b] = "B"

---------------------------------------------------------------------------
(* Further properties of _clarOptimization and generateClarStructures *)

\* the calls of _clarOptimization that have solved their model and have not
\* returned: those waiting for their recursive call, and the one that checks
\* its solution
NestedSolverCalls ==
    Len(clar.waiting) + (IF clar.at = "check" THEN 1 ELSE 0)

\* the sets of sextet rings of the optimal assignments
OptimalSextetSets(feasible) == {p.y : p \in OptimalPoints(feasible)}

\* C25 as stated: the depth of the _clarOptimization recursion never exceeds
\* the number of aromatic rings of the molecule.
C25_DepthWithinRings ==
    pc = "clar" => NestedSolverCalls <= Cardinality(clar.aromaticRings)

\* C25 amended: the depth of the recursion never exceeds the number of
\* distinct optimal sextet sets plus one: every level but the last excludes
\* the sextet set it found, and the last one finds no further optimum.
C25_DepthWithinSextetSets ==
    pc = "clar" =>
        NestedSolverCalls <= Cardinality(OptimalSextetSets(clar.feasible)) + 1

\* as many sextet sets as rings: the call that finds no further one is
\* nested one deeper
C25_Witness ==
    /\ pc = "clar"
    /\ clar.at = "check"
    /\ Cardinality(OptimalSextetSets(clar.feasible)) = Cardinality(clar.aromaticRings)
    /\ Len(clar.waiting) = Cardinality(clar.aromaticRings)

\* generateClarStructures has returned its list of structures
StructuresReturned == pc = "build" /\ frame.at = "returned"

\* C26 as stated: in every structure returned by generateClarStructures,
\* every exocyclic bond has the order it has in the input molecule, whichever
\* of the orders 1, 2, 3 and 1.5 that is.
C26_ExocyclicOrderKept ==
    StructuresReturned =>
        \A k \in 1..Len(frame.molList) :
            \A b \in AtomBonds :
                IsExocyclic(b) => frame.molList[k][b] = frame.mol[b]

\* the rings of a structure whose bonds are all benzene bonds
SextetsIn(order) ==
    {r \in SextetRings : \A b \in AtomBonds : b \subseteq r => order[b] = "B"}

\* the double bonds of an atom in a structure
DoubleBondsAt(order, a) == {b \in AtomBonds : a \in b /\ order[b] = "D"}

\* every ring atom is in exactly one sextet and has no double bond, or is in
\* no sextet and has exactly one double bond
OneSextetOrOneDouble(order) ==
    \A a \in RingAtoms :
        \/ /\ Cardinality({r \in SextetsIn(order) : a \in r}) = 1
           /\ DoubleBondsAt(order, a) = {}
        \/ /\ {r \in SextetsIn(order) : a \in r} = {}
           /\ Cardinality(DoubleBondsAt(order, a)) = 1

\* C27: in every structure materialized by generateClarStructures each
\* aromatic-ring atom is in exactly one sextet ring and has no double bond,
\* or is in no sextet ring and has exactly one double bond; the sextet
\* overwrite never replaces a bond the solution made double, and no two
\* sextet rings of a solution share an atom.
C27_SextetOrDouble ==
    /\ [](pc = "build" =>
            /\ frame.at = "types" => OneSextetOrOneDouble(frame.newmol)
            /\ \A k \in 1..Len(frame.molList) : OneSextetOrOneDouble(frame.molList[k])
            /\ frame.at = "sextets" =>
                  \A r1, r2 \in frame.output[frame.next + 1].y :
                      r1 # r2 => r1 \cap r2 = {})
    /\ [][(pc = "build" /\ frame.at = "sextets")
             => \A b \in AtomBonds :
                   frame.newmol[b] = "D" => frame'.newmol[b] = "D"]_vars

\* a returned structure with a sextet in one ring and double bonds at the
\* atoms of the other, the exocyclic ones among them
C27_Witness ==
    /\ StructuresReturned
    /\ \E k \in 1..Len(frame.molList) :
          /\ SextetsIn(frame.molList[k]) # {}
          /\ frame.molList[k][{1, 11}] = "D"
          /\ frame.molList[k][{2, 3}] = "D"

---------------------------------------------------------------------------
(* The order of restore and revalidation in the move appliers *)

\* isomer.updateAtomTypes has answered in this step: the copy is appended,
\* or the error leaves the applier
Revalidated ==
    \/ pc' = "raised"
    \/ Len(isomers') = Len(isomers) + 1

\* C28: in each move applier the restore of the molecule is completed before
\* the atom types of the copy are updated: when updateAtomTypes answers, and
\* in particular when it raises, the molecule is exactly the molecule handed
\* over, and it stays so.
C28_RestoredBeforeRevalidated ==
    [][Revalidated => (pc = "restored" /\ mol = mol0 /\ mol' = mol0)]_vars

\* updateAtomTypes raises for a copy that differs from the molecule, after
\* an earlier copy was appended
C28_Witness ==
    /\ pc = "raised"
    /\ mol = mol0
    /\ isomer # mol0
    /\ isomers # <<>>

---------------------------------------------------------------------------
(* The mode of the saturation steps of generateResonanceStructures *)

\* the engine works on the reconciled candidates for generateResonanceStructures
SaturatesCandidates ==
    /\ pc \in {"run", "scan", "done"}
    /\ gen.at \in {"174", "175", "176", "183", "185", "190"}

\* C29 as stated: every saturation step that generateResonanceStructures runs
\* on the reconciled candidates deduplicates under the mode of the caller;
\* with keepIsomorphic true the Kekule saturation of the radical monocyclic
\* branch deduplicates by isIdentical.
C29_SaturationInCallerMode ==
    SaturatesCandidates => keepIsomorphic = gen.keepIsomorphic

====
